---- MODULE Spec2Model ----
(***************************************************************************)
(* The secret-shared evaluator of supra-pok3r (src/src/evaluator.rs): n    *)
(* parties, each owning one Evaluator, evaluate the same sequence of gate  *)
(* calls over additive shares in a prime field and talk only through the   *)
(* messaging adapter (send_to_all / recv_from_all).                        *)
(*                                                                         *)
(* The scalar field, the table sizes and LOG_PERM_SIZE are scaled down so  *)
(* that TLC can enumerate the state space; every other definition follows  *)
(* the source line by line.                                                *)
(***************************************************************************)
EXTENDS Integers, Sequences, FiniteSets, TLC

\* ------------------------------------------------------------------ bounds
\* Largest number of parties (addr_book.len()); the model runs n in 2..MaxN.
MaxN == 3
\* Number of gate calls a run of the full circuit menu issues; the runs of a
\* reduced menu issue one more.
MaxCalls == 2
\* Largest batch length handed to a batched gate.
MaxBatch == 2
\* Number of preprocessed triples and random sharings (3466 and 987 in
\* common.rs, scaled down).
NUM_BEAVER_TRIPLES == 4
NUM_RAND_SHARINGS == 2
\* Number of repeated squarings of batch_exp (6 in common.rs, scaled down).
LOG_PERM_SIZE == 2
\* Number of coefficients of a share polynomial (64 in common.rs, scaled
\* down so that F has a root of unity of order 2 * PERM_SIZE).
PERM_SIZE == 2

\* ------------------------------------------------------- the scalar field F
\* F is modelled as the prime field of P elements (P = 1 mod 4, so that
\* -1 is a square as in the BLS12 scalar fields).
P == 5
F == 0 .. (P - 1)

FAdd(a, b) == (a + b) % P
FSub(a, b) == (a - b + P) % P
FMul(a, b) == (a * b) % P
FNeg(a) == (P - a) % P
\* The multiplicative inverse; only taken of a non-zero element.
FInv(a) == CHOOSE b \in F : (a * b) % P = 1

RECURSIVE SumSeq(_)
\* Sum in F of a sequence of field elements.
SumSeq(s) == IF s = <<>> THEN 0 ELSE FAdd(s[1], SumSeq(Tail(s)))

\* ------------------------------------------------------------- text forms
\* The base58 alphabet of the bs58 crate (the Bitcoin alphabet).
B58 == << "1", "2", "3", "4", "5", "6", "7", "8", "9",
          "A", "B", "C", "D", "E", "F", "G", "H", "J", "K", "L", "M", "N",
          "P", "Q", "R", "S", "T", "U", "V", "W", "X", "Y", "Z",
          "a", "b", "c", "d", "e", "f", "g", "h", "i", "j", "k", "m", "n",
          "o", "p", "q", "r", "s", "t", "u", "v", "w", "x", "y", "z" >>

RECURSIVE Base58Digits(_)
\* The base58 digits of a positive number, most significant first; the
\* empty text for 0 (bs58 writes leading zero bytes separately).
Base58Digits(v) ==
    IF v = 0 THEN <<>> ELSE Append(Base58Digits(v \div 58), B58[(v % 58) + 1])

RECURSIVE ByteLen(_)
\* Number of significant bytes of a number (0 for 0).
ByteLen(v) == IF v = 0 THEN 0 ELSE 1 + ByteLen(v \div 256)

\* k copies of the character "1", which bs58 writes for a leading zero byte.
Ones(k) == [i \in 1 .. k |-> "1"]

\* bs58::encode(counter.to_be_bytes()): one "1" per leading zero byte of the
\* 8-byte big-endian form, then the base58 digits of the number.
WireLabel(counter) == Ones(8 - ByteLen(counter)) \o Base58Digits(counter)

RECURSIVE Base58Value(_)
\* The number a base58 text denotes (the inverse of Base58Digits).
Base58Value(s) ==
    IF s = <<>> THEN 0
    ELSE 58 * Base58Value(SubSeq(s, 1, Len(s) - 1))
         + (CHOOSE d \in 0 .. 57 : B58[d + 1] = s[Len(s)])

\* The wire payload of a field element: base58 of its canonical
\* serialization, which for a field of fewer than 256 elements is one byte.
\* bs58 writes a zero byte as "1" and any other byte as its base58 digits.
encode_f_as_bs58_str(v) == IF v = 0 THEN Ones(1) ELSE Base58Digits(v)

decode_bs58_str_as_f(s) == Base58Value(s)

\* ------------------------------------------------- random number generators
\* A generator is a deterministic stream of field elements fixed by its
\* seed.  The streams of the rand crates are not modelled bit by bit: a seed
\* is a pair <<s0, d>> and the k-th output (k = 0, 1, ...) is s0 + k*d in F.
Draw(seed, k) == (seed[1] + k * seed[2]) % P

\* ------------------------------------------------------------ address book
\* parse_addr_book_from_json(num_parties): node ids are handed out from a
\* counter that starts at 1, one per peer.
parse_addr_book_from_json(num_parties) == 1 .. num_parties

\* ------------------------------------------------------------ preprocessing
RECURSIVE TriplesInnerLoop_FromPartyTwo(_, _, _, _, _)
\* A faulty TriplesInnerLoop: the seeded shares are handed to the parties
\* 2..n-1 only, the first draws of each iteration to nobody.
TriplesInnerLoop_FromPartyTwo(j, n, my_id, seed, st) ==
    IF j >= n THEN st
    ELSE TriplesInnerLoop_FromPartyTwo(j + 1, n, my_id, seed,
            [pos   |-> st.pos + 3,
             sum_a |-> FAdd(st.sum_a, Draw(seed, st.pos)),
             sum_b |-> FAdd(st.sum_b, Draw(seed, st.pos + 1)),
             sum_c |-> FAdd(st.sum_c, Draw(seed, st.pos + 2)),
             out   |-> IF j = my_id /\ j >= 2
                       THEN Append(st.out, <<Draw(seed, st.pos),
                                             Draw(seed, st.pos + 1),
                                             Draw(seed, st.pos + 2)>>)
                       ELSE st.out])

RECURSIVE TriplesInnerLoop(_, _, _, _, _)
\* The loop `for j in 1..n` of preprocess_triples (j = 1, ..., n-1): three
\* draws from the seeded generator per j, added to the running sums, and
\* kept when j is this party's id.
TriplesInnerLoop(j, n, my_id, seed, st) ==
    IF j >= n THEN st
    ELSE LET party_j_share_a == Draw(seed, st.pos)
             party_j_share_b == Draw(seed, st.pos + 1)
             party_j_share_c == Draw(seed, st.pos + 2)
         IN  TriplesInnerLoop(j + 1, n, my_id, seed,
                [pos   |-> st.pos + 3,
                 sum_a |-> FAdd(st.sum_a, party_j_share_a),
                 sum_b |-> FAdd(st.sum_b, party_j_share_b),
                 sum_c |-> FAdd(st.sum_c, party_j_share_c),
                 out   |-> IF j = my_id
                           THEN Append(st.out, <<party_j_share_a,
                                                 party_j_share_b,
                                                 party_j_share_c>>)
                           ELSE st.out])

\* A faulty LastPartyTriple: party n keeps (a, b, a*b) itself instead of
\* what is left of it after the other parties' shares.
LastPartyTriple_Unmasked(a, b, st) == <<a, b, FMul(a, b)>>

\* What party n pushes at the end of iteration i: its shares complete the
\* sums to (a, b, a*b).
LastPartyTriple(a, b, st) ==
    <<FSub(a, st.sum_a), FSub(b, st.sum_b), FSub(FMul(a, b), st.sum_c)>>

RECURSIVE TriplesOuterLoop(_, _, _, _, _, _, _, _)
\* The loop `for i in 0..num_beavers` of preprocess_triples: a and b come
\* from the party's own thread_rng, the other shares from the seeded one.
TriplesOuterLoop(i, num_beavers, n, my_id, seed, local, pos, out) ==
    IF i >= num_beavers THEN out
    ELSE LET a  == Draw(local, 2 * i)
             b  == Draw(local, 2 * i + 1)
             st == TriplesInnerLoop(1, n, my_id, seed,
                      [pos |-> pos, sum_a |-> 0, sum_b |-> 0, sum_c |-> 0,
                       out |-> out])
             out2 == IF n = my_id
                     THEN Append(st.out, LastPartyTriple(a, b, st))
                     ELSE st.out
         IN  TriplesOuterLoop(i + 1, num_beavers, n, my_id, seed, local,
                              st.pos, out2)

\* preprocess_triples(num_beavers) at the party with id my_id among n.
preprocess_triples(num_beavers, n, my_id, seed, local) ==
    TriplesOuterLoop(0, num_beavers, n, my_id, seed, local, 0, <<>>)

RECURSIVE FPow(_, _)
FPow(x, k) == IF k = 0 THEN 1 ELSE FMul(x, FPow(x, k - 1))

\* shamir::share(secret, (t, n), rng): the values at 1..n of a polynomial of
\* degree t-1 whose constant term is the secret and whose other
\* coefficients are the next t-1 draws (k0 is the index of the first).
shamir_share(secret, t, n, seed, k0) ==
    [x \in 1 .. n |->
        <<x, SumSeq([d \in 1 .. t |->
                       IF d = 1 THEN secret
                       ELSE FMul(Draw(seed, k0 + d - 2), FPow(x % P, d - 1))])>>]

\* preprocess_rand_sharings(num_sharings): per sharing one draw for the
\* secret and an (n, n) Shamir sharing of it; the party keeps the share at
\* position my_id - 1.
preprocess_rand_sharings(num_sharings, n, my_id, seed) ==
    LET index == my_id - 1
    IN  [i \in 1 .. num_sharings |->
            LET k0     == (i - 1) * n
                secret == Draw(seed, k0)
                shares == shamir_share(secret, n, n, seed, k0 + 1)
            IN  shares[index + 1][2]]

\* ------------------------------------------------------- the Evaluator value
\* A party's Evaluator is a record with the fields of the struct:
\*   messaging      [my_id, addr_book]  (what the adapter answers)
\*   beaver_triples, rand_sharings      the preprocessed lists
\*   wire_shares                         handle -> share
\*   gate_counter, beaver_counter, rand_counter
\* and `panicked`, set when the thread has panicked: a panicked evaluator
\* runs no further statement.  A local gate is an operator from the record
\* (and the arguments) to [e |-> the record after, h |-> what it returns].

NoHandle == <<>>

Panic(e) == [e EXCEPT !.panicked = TRUE]

get_my_id(e) == e.messaging.my_id

\* HashMap::insert: the entry is added, or replaced when the key exists.
Insert(e, h, v) ==
    [e EXCEPT !.wire_shares =
        [k \in (DOMAIN @) \cup {h} |-> IF k = h THEN v ELSE @[k]]]

HasWire(e, h) == h \in DOMAIN e.wire_shares

\* get_wire: the share under the handle; panics (unwrap of None) when the
\* handle is absent, which callers test with HasWire before reading.
get_wire(e, h) == e.wire_shares[h]

\* A faulty compute_fresh_wire_label: the label is made from the counter but
\* the counter is not advanced.
compute_fresh_wire_label_NoIncrement(e) ==
    [e |-> e, h |-> WireLabel(e.gate_counter + 1)]

compute_fresh_wire_label(e) ==
    [e |-> [e EXCEPT !.gate_counter = @ + 1],
     h |-> WireLabel(e.gate_counter + 1)]

\* A faulty ran: the sharing is handed out but rand_counter stays.
ran_KeepsCounter(e) ==
    IF e.panicked THEN [e |-> e, h |-> NoHandle]
    ELSE LET f == compute_fresh_wire_label(e)
         IN  IF e.rand_counter + 1 > Len(e.rand_sharings)
             THEN [e |-> Panic(f.e), h |-> NoHandle]
             ELSE [e |-> Insert(f.e, f.h, e.rand_sharings[e.rand_counter + 1]),
                   h |-> f.h]

ran(e) ==
    IF e.panicked THEN [e |-> e, h |-> NoHandle]
    ELSE LET f == compute_fresh_wire_label(e)
         IN  IF e.rand_counter + 1 > Len(e.rand_sharings)
             THEN [e |-> Panic(f.e), h |-> NoHandle]
             ELSE [e |-> [Insert(f.e, f.h, e.rand_sharings[e.rand_counter + 1])
                            EXCEPT !.rand_counter = @ + 1],
                   h |-> f.h]

\* A faulty add: the body of sub pasted in.
add_Subtracts(e, handle_x, handle_y) ==
    IF e.panicked THEN [e |-> e, h |-> NoHandle]
    ELSE LET f == compute_fresh_wire_label(e)
         IN  IF ~HasWire(e, handle_x) \/ ~HasWire(e, handle_y)
             THEN [e |-> Panic(f.e), h |-> NoHandle]
             ELSE [e |-> Insert(f.e, f.h, FSub(get_wire(e, handle_x),
                                               get_wire(e, handle_y))),
                   h |-> f.h]

\* A faulty add: a handle that is not in the table reads as the share 0.
add_MissingReadsZero(e, handle_x, handle_y) ==
    IF e.panicked THEN [e |-> e, h |-> NoHandle]
    ELSE LET f == compute_fresh_wire_label(e)
             share_x == IF HasWire(e, handle_x) THEN get_wire(e, handle_x) ELSE 0
             share_y == IF HasWire(e, handle_y) THEN get_wire(e, handle_y) ELSE 0
         IN  [e |-> Insert(f.e, f.h, FAdd(share_x, share_y)), h |-> f.h]

add(e, handle_x, handle_y) ==
    IF e.panicked THEN [e |-> e, h |-> NoHandle]
    ELSE LET f == compute_fresh_wire_label(e)
         IN  IF ~HasWire(e, handle_x) \/ ~HasWire(e, handle_y)
             THEN [e |-> Panic(f.e), h |-> NoHandle]
             ELSE [e |-> Insert(f.e, f.h, FAdd(get_wire(e, handle_x),
                                               get_wire(e, handle_y))),
                   h |-> f.h]

sub(e, handle_x, handle_y) ==
    IF e.panicked THEN [e |-> e, h |-> NoHandle]
    ELSE LET f == compute_fresh_wire_label(e)
         IN  IF ~HasWire(e, handle_x) \/ ~HasWire(e, handle_y)
             THEN [e |-> Panic(f.e), h |-> NoHandle]
             ELSE [e |-> Insert(f.e, f.h, FSub(get_wire(e, handle_x),
                                               get_wire(e, handle_y))),
                   h |-> f.h]

\* A faulty clear_add: every party adds the public value to its share.
clear_add_AtEveryParty(e, handle_x, y) ==
    IF e.panicked THEN [e |-> e, h |-> NoHandle]
    ELSE IF ~HasWire(e, handle_x) THEN [e |-> Panic(e), h |-> NoHandle]
    ELSE LET f == compute_fresh_wire_label(e)
         IN  [e |-> Insert(f.e, f.h, FAdd(get_wire(e, handle_x), y)), h |-> f.h]

clear_add(e, handle_x, y) ==
    IF e.panicked THEN [e |-> e, h |-> NoHandle]
    ELSE IF ~HasWire(e, handle_x) THEN [e |-> Panic(e), h |-> NoHandle]
    ELSE LET x == get_wire(e, handle_x)
             clear_add_share == IF get_my_id(e) = 1 THEN FAdd(x, y) ELSE x
             f == compute_fresh_wire_label(e)
         IN  [e |-> Insert(f.e, f.h, clear_add_share), h |-> f.h]

scale(e, handle_in, scalar) ==
    IF e.panicked THEN [e |-> e, h |-> NoHandle]
    ELSE LET f == compute_fresh_wire_label(e)
         IN  IF ~HasWire(e, handle_in)
             THEN [e |-> Panic(f.e), h |-> NoHandle]
             ELSE [e |-> Insert(f.e, f.h, FMul(get_wire(e, handle_in), scalar)),
                   h |-> f.h]

\* A faulty fixed_wire_handle: only the party with id 1, which stores the
\* value, allocates a handle; the others hand back their latest one.
fixed_wire_handle_LabelAtPartyOne(e, value) ==
    IF e.panicked THEN [e |-> e, h |-> NoHandle]
    ELSE IF get_my_id(e) = 1
    THEN LET f == compute_fresh_wire_label(e)
         IN  [e |-> Insert(f.e, f.h, value), h |-> f.h]
    ELSE [e |-> Insert(e, WireLabel(e.gate_counter), 0),
          h |-> WireLabel(e.gate_counter)]

fixed_wire_handle(e, value) ==
    IF e.panicked THEN [e |-> e, h |-> NoHandle]
    ELSE LET f == compute_fresh_wire_label(e)
             share == IF get_my_id(e) = 1 THEN value ELSE 0
         IN  [e |-> Insert(f.e, f.h, share), h |-> f.h]

RECURSIVE PolyEvalLoop_FixedPower(_, _, _, _)
\* A faulty PolyEvalLoop: x_pow is never multiplied by x.
PolyEvalLoop_FixedPower(coeffs, x, sum, x_pow) ==
    IF coeffs = <<>> THEN sum
    ELSE PolyEvalLoop_FixedPower(Tail(coeffs), x,
                                 FAdd(sum, FMul(coeffs[1], x_pow)), x_pow)

RECURSIVE PolyEvalLoop(_, _, _, _)
\* The loop of share_poly_eval over the coefficients, lowest first:
\* sum += coeff * x_pow; x_pow *= x.
PolyEvalLoop(coeffs, x, sum, x_pow) ==
    IF coeffs = <<>> THEN sum
    ELSE PolyEvalLoop(Tail(coeffs), x, FAdd(sum, FMul(coeffs[1], x_pow)),
                      FMul(x_pow, x))

share_poly_eval(e, f_poly_share, x) ==
    IF e.panicked THEN [e |-> e, h |-> NoHandle]
    ELSE LET f == compute_fresh_wire_label(e)
         IN  [e |-> Insert(f.e, f.h, PolyEvalLoop(f_poly_share, x, 0, 1)),
              h |-> f.h]

\* With(v, Op) is Op applied to v: `let name = v; rest` of the source is
\* written With(v, LAMBDA name : rest).
With(v, Op(_)) == Op(v)

\* beaver(): three fresh handles, then the inserts; the first insert panics
\* (index out of bounds) when no triple is left.
beaver(e) ==
    IF e.panicked THEN [e |-> e, h |-> NoHandle]
    ELSE With(compute_fresh_wire_label(e), LAMBDA fa :
         With(compute_fresh_wire_label(fa.e), LAMBDA fb :
         With(compute_fresh_wire_label(fb.e), LAMBDA fc :
            IF e.beaver_counter + 1 > Len(e.beaver_triples)
            THEN [e |-> Panic(fc.e), h |-> NoHandle]
            ELSE LET t == e.beaver_triples[e.beaver_counter + 1]
                 IN  [e |-> [Insert(Insert(Insert(fc.e, fa.h, t[1]),
                                           fb.h, t[2]), fc.h, t[3])
                               EXCEPT !.beaver_counter = @ + 1],
                      h |-> <<fa.h, fb.h, fc.h>>])))

RECURSIVE BatchBeaverLoop(_, _, _, _)
\* The loop of batch_beaver: iteration i reads triple beaver_counter + i; the
\* counter itself is not advanced inside the loop.
BatchBeaverLoop(e, i, num_beavers, output) ==
    IF e.panicked \/ i >= num_beavers THEN [e |-> e, h |-> output]
    ELSE With(compute_fresh_wire_label(e), LAMBDA fa :
         With(compute_fresh_wire_label(fa.e), LAMBDA fb :
         With(compute_fresh_wire_label(fb.e), LAMBDA fc :
            IF e.beaver_counter + i + 1 > Len(e.beaver_triples)
            THEN [e |-> Panic(fc.e), h |-> output]
            ELSE LET t == e.beaver_triples[e.beaver_counter + i + 1]
                 IN  BatchBeaverLoop(
                        Insert(Insert(Insert(fc.e, fa.h, t[1]), fb.h, t[2]),
                               fc.h, t[3]),
                        i + 1, num_beavers,
                        Append(output, <<fa.h, fb.h, fc.h>>)))))

\* A faulty batch_beaver: when the triples run out it goes on with zero
\* triples and advances the counter all the same.
batch_beaver_Unchecked(e, num_beavers) ==
    IF e.panicked THEN [e |-> e, h |-> <<>>]
    ELSE With(BatchBeaverLoop([e EXCEPT !.beaver_triples =
                                  @ \o [i \in 1 .. num_beavers |-> <<0, 0, 0>>]],
                              0, num_beavers, <<>>),
              LAMBDA r :
                [e |-> [r.e EXCEPT !.beaver_counter = @ + num_beavers,
                                   !.beaver_triples = e.beaver_triples],
                 h |-> r.h])

\* A faulty batch_beaver: the counter is advanced by one, as in beaver,
\* whatever the number of triples read.
batch_beaver_AdvancesByOne(e, num_beavers) ==
    IF e.panicked THEN [e |-> e, h |-> <<>>]
    ELSE With(BatchBeaverLoop(e, 0, num_beavers, <<>>), LAMBDA r :
            IF r.e.panicked THEN r
            ELSE [e |-> [r.e EXCEPT !.beaver_counter = @ + 1],
                  h |-> r.h])

batch_beaver(e, num_beavers) ==
    IF e.panicked THEN [e |-> e, h |-> <<>>]
    ELSE With(BatchBeaverLoop(e, 0, num_beavers, <<>>), LAMBDA r :
            IF r.e.panicked THEN r
            ELSE [e |-> [r.e EXCEPT !.beaver_counter = @ + num_beavers],
                  h |-> r.h])

\* ------------------------------------------------------------ reconstruction
Range(s) == {s[i] : i \in DOMAIN s}

RECURSIVE reconstruct_scalar(_)
\* shares.values().fold(0, +) over a HashMap sender -> share.
reconstruct_scalar(shares) ==
    IF DOMAIN shares = {} THEN 0
    ELSE LET k == CHOOSE x \in DOMAIN shares : TRUE
         IN  FAdd(shares[k],
                  reconstruct_scalar([x \in DOMAIN shares \ {k} |-> shares[x]]))

\* A faulty CollectIncoming: the party's own share is left out.
CollectIncoming_WithoutOwn(msgs, my_id, my_share) ==
    [s \in {m[1] : m \in Range(msgs)} |->
        decode_bs58_str_as_f(
            msgs[CHOOSE i \in DOMAIN msgs :
                    /\ msgs[i][1] = s
                    /\ \A k \in DOMAIN msgs : msgs[k][1] = s => k <= i][2])]

\* .into_iter().map(|(x, y)| (x, decode(y))).collect::<HashMap<u64, F>>()
\* followed by insert(my_id, my_share): one entry per sender (a later
\* message of a sender replaces an earlier one), the own entry last.
CollectIncoming(msgs, my_id, my_share) ==
    LET senders == {m[1] : m \in Range(msgs)}
        last(s) == CHOOSE i \in DOMAIN msgs :
                      /\ msgs[i][1] = s
                      /\ \A k \in DOMAIN msgs : msgs[k][1] = s => k <= i
    IN  [s \in senders \cup {my_id} |->
            IF s = my_id THEN my_share
            ELSE decode_bs58_str_as_f(msgs[last(s)][2])]

\* Above this many items a batched reconstruction of field elements sends
\* in slices (`len > 256`, evaluator.rs line 427).  The threshold is scaled
\* down, as PERM_SIZE is, so that lists of one, two and three slices stay
\* short.
F_CHUNK == 4

RECURSIVE ChunkedSends_WholeSlicesOnly(_, _, _, _)
\* A faulty ChunkedSends: the loop stops when fewer than `chunk` items are
\* left.
ChunkedSends_WholeSlicesOnly(handles, values, processed_len, chunk) ==
    IF Len(handles) - processed_len < chunk THEN <<>>
    ELSE <<[i \in 1 .. chunk |->
              <<handles[processed_len + i], values[processed_len + i]>>]>>
         \o ChunkedSends_WholeSlicesOnly(handles, values,
                                         processed_len + chunk, chunk)

RECURSIVE ChunkedSends(_, _, _, _)
\* The `while processed_len < len` loop: one send_to_all per slice of at
\* most `chunk` items.
ChunkedSends(handles, values, processed_len, chunk) ==
    IF processed_len >= Len(handles) THEN <<>>
    ELSE LET len == Len(handles)
             this_iter_len == IF len - processed_len < chunk
                              THEN len - processed_len ELSE chunk
             bucket == [i \in 1 .. this_iter_len |->
                          <<handles[processed_len + i],
                            values[processed_len + i]>>]
         IN  <<bucket>> \o ChunkedSends(handles, values,
                                        processed_len + this_iter_len, chunk)

\* The send_to_all calls a batched reconstruction issues for the aligned
\* lists: one call with everything, or the slices when len > chunk.  Each
\* call is the sequence of its (identifier, payload) pairs.
BatchSends(handles, values, chunk) ==
    IF Len(handles) > chunk THEN ChunkedSends(handles, values, 0, chunk)
    ELSE << [i \in 1 .. Len(handles) |-> <<handles[i], values[i]>>] >>

\* batch_output_wire up to its last send: the payloads are read from the
\* wire table (a missing handle panics before anything is sent).
BatchOutputWireSend(e, wire_handles) ==
    IF e.panicked THEN [e |-> e, sends |-> <<>>]
    ELSE IF \E i \in DOMAIN wire_handles : ~HasWire(e, wire_handles[i])
    THEN [e |-> Panic(e), sends |-> <<>>]
    ELSE LET values == [i \in DOMAIN wire_handles |->
                          encode_f_as_bs58_str(get_wire(e, wire_handles[i]))]
         IN  [e |-> e, sends |-> BatchSends(wire_handles, values, F_CHUNK)]

\* batch_output_wire from its first recv_from_all on: received[i] is what
\* recv_from_all(wire_handles[i]) returned.
BatchOutputWireRecv(e, wire_handles, received) ==
    [i \in DOMAIN wire_handles |->
        reconstruct_scalar(
            CollectIncoming(received[i], get_my_id(e),
                            get_wire(e, wire_handles[i])))]

\* output_wire up to its send.
OutputWireSend(e, wire_handle) ==
    IF e.panicked THEN [e |-> e, sends |-> <<>>, my_share |-> 0]
    ELSE IF ~HasWire(e, wire_handle)
    THEN [e |-> Panic(e), sends |-> <<>>, my_share |-> 0]
    ELSE LET my_share == get_wire(e, wire_handle)
         IN  [e |-> e,
              sends |-> << << <<wire_handle, encode_f_as_bs58_str(my_share)>> >> >>,
              my_share |-> my_share]

\* output_wire from its recv_from_all on.
OutputWireRecv(e, my_share, received) ==
    reconstruct_scalar(CollectIncoming(received, get_my_id(e), my_share))

\* ------------------------------------------------ gates that reconstruct
\* A gate that opens values runs in stages: stage 0 from the call to its
\* first recv_from_all, stage k+1 from the answer of the recvs stage k
\* waits on to the next recv (or to the return).  A stage is an operator to
\* an outcome record:
\*   e      the evaluator after the stage
\*   sends  the send_to_all calls it made, in order
\*   wait   the identifiers it now awaits with recv_from_all, in order
\*   loc    the local variables that live across the await
\*   done   whether the gate returned
\*   ret    what it returned: [handles, values]
\* Consecutive recv_from_all calls with nothing sent in between (the receive
\* loop of batch_output_wire) are one wait.

EmptyLoc ==
    [bk_a |-> <<>>, bk_b |-> <<>>, bk_c |-> <<>>, xa |-> <<>>, ya |-> <<>>,
     aux |-> <<>>, tmp |-> <<>>, vals |-> <<>>, share |-> 0]

NoRet == [handles |-> <<>>, values |-> <<>>]

Blocked(e, sends, wait, loc) ==
    [e |-> e, sends |-> IF e.panicked THEN <<>> ELSE sends, wait |-> wait,
     loc |-> loc, done |-> FALSE, ret |-> NoRet]

Returned(e, handles, values) ==
    [e |-> e, sends |-> <<>>, wait |-> <<>>, loc |-> EmptyLoc, done |-> TRUE,
     ret |-> [handles |-> handles, values |-> values]]

\* A faulty MultShare: every party adds the constant term.
MultShare_EveryPartyAddsConstant(my_id, x_plus_a, y_plus_b, share_a, share_b, share_c) ==
    FAdd(FSub(FSub(FMul(x_plus_a, y_plus_b), FMul(x_plus_a, share_b)),
              FMul(y_plus_b, share_a)), share_c)

\* The share of x*y a party stores (mult lines 204-207, batch_mult lines
\* 253-266): only the party with id 1 adds the constant term.
MultShare(my_id, x_plus_a, y_plus_b, share_a, share_b, share_c) ==
    IF my_id = 1
    THEN FAdd(FSub(FSub(FMul(x_plus_a, y_plus_b), FMul(x_plus_a, share_b)),
                   FMul(y_plus_b, share_a)), share_c)
    ELSE FAdd(FSub(FSub(0, FMul(x_plus_a, share_b)),
                   FMul(y_plus_b, share_a)), share_c)

RECURSIVE BatchMultPadLoop(_, _, _, _, _, _)
\* The first loop of batch_mult: remember the triple's shares and build the
\* adder gates for x+a and y+b.
BatchMultPadLoop(e, i, x_handles, y_handles, beavers, loc) ==
    IF e.panicked \/ i > Len(x_handles) THEN [e |-> e, loc |-> loc]
    ELSE LET h_a == beavers[i][1]
             h_b == beavers[i][2]
             h_c == beavers[i][3]
         IN  With(add(e, x_handles[i], h_a), LAMBDA r1 :
             With(add(r1.e, y_handles[i], h_b), LAMBDA r2 :
                BatchMultPadLoop(r2.e, i + 1, x_handles, y_handles, beavers,
                   [loc EXCEPT !.bk_a = Append(@, get_wire(e, h_a)),
                               !.bk_b = Append(@, get_wire(e, h_b)),
                               !.bk_c = Append(@, get_wire(e, h_c)),
                               !.xa = Append(@, r1.h),
                               !.ya = Append(@, r2.h)])))

\* batch_mult up to the call of batch_output_wire (lines 213-242).
BatchMultBegin(e, loc, x_handles, y_handles) ==
    IF e.panicked THEN [e |-> e, loc |-> loc]
    ELSE IF Len(x_handles) # Len(y_handles) THEN [e |-> Panic(e), loc |-> loc]
    ELSE With(batch_beaver(e, Len(x_handles)), LAMBDA b :
            BatchMultPadLoop(b.e, 1, x_handles, y_handles, b.h,
               [loc EXCEPT !.bk_a = <<>>, !.bk_b = <<>>, !.bk_c = <<>>,
                           !.xa = <<>>, !.ya = <<>>]))

RECURSIVE BatchMultOutLoop(_, _, _, _, _)
\* The second loop of batch_mult (lines 248-272).
BatchMultOutLoop(e, i, loc, opened, output) ==
    IF i > Len(loc.xa) THEN [e |-> e, h |-> output]
    ELSE LET x_plus_a_reconstructed == opened[i]
             y_plus_b_reconstructed == opened[Len(loc.xa) + i]
             share_x_mul_y ==
                 MultShare(get_my_id(e), x_plus_a_reconstructed,
                           y_plus_b_reconstructed,
                           loc.bk_a[i], loc.bk_b[i], loc.bk_c[i])
         IN  With(compute_fresh_wire_label(e), LAMBDA f :
                BatchMultOutLoop(Insert(f.e, f.h, share_x_mul_y), i + 1, loc,
                                 opened, Append(output, f.h)))

\* batch_mult from the answer of batch_output_wire on.
BatchMultEnd(e, loc, received) ==
    BatchMultOutLoop(e, 1, loc,
                     BatchOutputWireRecv(e, loc.xa \o loc.ya, received), <<>>)

\* A faulty OpenBatch: batch_output_wire with its receive loop before its
\* sends.
OpenBatch_ReceivesFirst(e, handles, loc) ==
    With(BatchOutputWireSend(e, handles), LAMBDA s :
        Blocked(s.e, <<>>, handles, loc))

\* The call of batch_output_wire a gate makes on handles it has just built,
\* up to its first recv: loc is what the gate keeps across the await.
OpenBatch(e, handles, loc) ==
    With(BatchOutputWireSend(e, handles), LAMBDA s :
        Blocked(s.e, s.sends, handles, loc))

\* batch_mult(x_handles, y_handles).
BatchMultStage(e, x_handles, y_handles, stage, loc, received) ==
    IF stage = 0
    THEN With(BatchMultBegin(e, loc, x_handles, y_handles), LAMBDA b :
            OpenBatch(b.e, b.loc.xa \o b.loc.ya, b.loc))
    ELSE With(BatchMultEnd(e, loc, received), LAMBDA r :
            Returned(r.e, r.h, <<>>))

\* mult(handle_x, handle_y): two output_wire calls one after the other.
MultStage(e, handle_x, handle_y, stage, loc, received) ==
    IF stage = 0
    THEN With(beaver(e), LAMBDA b :
         With(add(b.e, handle_x, IF b.e.panicked THEN NoHandle ELSE b.h[1]),
              LAMBDA r1 :
         With(add(r1.e, handle_y, IF b.e.panicked THEN NoHandle ELSE b.h[2]),
              LAMBDA r2 :
            IF r2.e.panicked THEN Blocked(r2.e, <<>>, <<>>, loc)
            ELSE With(OutputWireSend(r2.e, r1.h), LAMBDA s :
                    Blocked(s.e, s.sends, <<r1.h>>,
                       [loc EXCEPT !.bk_a = <<get_wire(b.e, b.h[1])>>,
                                   !.bk_b = <<get_wire(b.e, b.h[2])>>,
                                   !.bk_c = <<get_wire(b.e, b.h[3])>>,
                                   !.xa = <<r1.h>>, !.ya = <<r2.h>>,
                                   !.share = s.my_share])))))
    ELSE IF stage = 1
    THEN With(OutputWireRecv(e, loc.share, received[1]), LAMBDA x_plus_a :
         With(OutputWireSend(e, loc.ya[1]), LAMBDA s :
            Blocked(s.e, s.sends, loc.ya,
                    [loc EXCEPT !.vals = <<x_plus_a>>, !.share = s.my_share])))
    ELSE With(OutputWireRecv(e, loc.share, received[1]), LAMBDA y_plus_b :
         With(compute_fresh_wire_label(e), LAMBDA f :
            LET x_plus_a == loc.vals[1]
                share_x_mul_y ==
                    MultShare(get_my_id(e), x_plus_a, y_plus_b,
                              loc.bk_a[1], loc.bk_b[1], loc.bk_c[1])
            IN  Returned(Insert(f.e, f.h, share_x_mul_y), <<f.h>>, <<>>)))

\* output_wire(wire_handle).
OutputWireStage(e, wire_handle, stage, loc, received) ==
    IF stage = 0
    THEN With(OutputWireSend(e, wire_handle), LAMBDA s :
            Blocked(s.e, s.sends, <<wire_handle>>,
                    [loc EXCEPT !.share = s.my_share]))
    ELSE Returned(e, <<>>, <<OutputWireRecv(e, loc.share, received[1])>>)

\* batch_output_wire(wire_handles).
BatchOutputWireStage(e, wire_handles, stage, loc, received) ==
    IF stage = 0
    THEN OpenBatch(e, wire_handles, loc)
    ELSE Returned(e, <<>>, BatchOutputWireRecv(e, wire_handles, received))

RECURSIVE RanLoop(_, _, _)
\* (0..len).map(|_| self.ran()).collect()
RanLoop(e, len, out) ==
    IF e.panicked \/ len = 0 THEN [e |-> e, h |-> out]
    ELSE With(ran(e), LAMBDA r : RanLoop(r.e, len - 1, Append(out, r.h)))

RECURSIVE BatchInvOutLoop_NoInverse(_, _, _, _, _)
\* A faulty BatchInvOutLoop: the mask's share is scaled by the opened q
\* itself, not by 1/q.
BatchInvOutLoop_NoInverse(e, i, rand_handles, masked_values, output) ==
    IF e.panicked \/ i > Len(rand_handles) THEN [e |-> e, h |-> output]
    ELSE IF masked_values[i] = 0 THEN [e |-> Panic(e), h |-> output]
    ELSE With(compute_fresh_wire_label(e), LAMBDA f :
            BatchInvOutLoop_NoInverse(
                Insert(f.e, f.h, FMul(masked_values[i],
                                      get_wire(e, rand_handles[i]))),
                i + 1, rand_handles, masked_values, Append(output, f.h)))

RECURSIVE BatchInvOutLoop(_, _, _, _, _)
\* The last loop of batch_inv: 1 / q panics when the opened q is zero.
BatchInvOutLoop(e, i, rand_handles, masked_values, output) ==
    IF e.panicked \/ i > Len(rand_handles) THEN [e |-> e, h |-> output]
    ELSE IF masked_values[i] = 0 THEN [e |-> Panic(e), h |-> output]
    ELSE LET q_inv == FMul(1, FInv(masked_values[i]))
             wire_out == FMul(q_inv, get_wire(e, rand_handles[i]))
         IN  With(compute_fresh_wire_label(e), LAMBDA f :
                BatchInvOutLoop(Insert(f.e, f.h, wire_out), i + 1,
                                rand_handles, masked_values,
                                Append(output, f.h)))

\* batch_inv(input_handles).
BatchInvStage(e, input_handles, stage, loc, received) ==
    IF stage = 0
    THEN With(RanLoop(e, Len(input_handles), <<>>), LAMBDA r :
         With(BatchMultStage(r.e, input_handles, r.h, 0, loc, <<>>), LAMBDA o :
            [o EXCEPT !.loc.aux = r.h]))
    ELSE IF stage = 1
    THEN With(BatchMultEnd(e, loc, received), LAMBDA m :
            OpenBatch(m.e, m.h, [loc EXCEPT !.tmp = m.h]))
    ELSE With(BatchInvOutLoop(e, 1, loc.aux,
                              BatchOutputWireRecv(e, loc.tmp, received), <<>>),
              LAMBDA r : Returned(r.e, r.h, <<>>))

RECURSIVE BatchExpCopyLoop_NoInsert(_, _, _, _)
\* A faulty BatchExpCopyLoop: the fresh handles are returned without their
\* shares being stored.
BatchExpCopyLoop_NoInsert(e, i, tmp, output) ==
    IF i > Len(tmp) THEN [e |-> e, h |-> output]
    ELSE With(compute_fresh_wire_label(e), LAMBDA f :
            BatchExpCopyLoop_NoInsert(f.e, i + 1, tmp, Append(output, f.h)))

RECURSIVE BatchExpCopyLoop(_, _, _, _)
\* The last loop of batch_exp: a fresh handle per input, holding the share
\* of the last product.
BatchExpCopyLoop(e, i, tmp, output) ==
    IF i > Len(tmp) THEN [e |-> e, h |-> output]
    ELSE With(compute_fresh_wire_label(e), LAMBDA f :
            BatchExpCopyLoop(Insert(f.e, f.h, get_wire(e, tmp[i])), i + 1,
                             tmp, Append(output, f.h)))

\* A faulty BatchExpStage: the loop of squarings runs once too few.
BatchExpStage_OneSquaringShort(e, input_labels, stage, loc, received) ==
    With(IF stage = 0 THEN [e |-> e, h |-> input_labels]
         ELSE BatchMultEnd(e, loc, received),
         LAMBDA m :
            IF stage < LOG_PERM_SIZE - 1
            THEN BatchMultStage(m.e, m.h, m.h, 0, loc, <<>>)
            ELSE IF m.e.panicked THEN Returned(m.e, <<>>, <<>>)
            ELSE With(BatchExpCopyLoop(m.e, 1, m.h, <<>>), LAMBDA r :
                    Returned(r.e, r.h, <<>>)))

\* batch_exp(input_labels): stage k < LOG_PERM_SIZE starts the k-th
\* batch_mult(tmp, tmp); stage LOG_PERM_SIZE ends the last one and copies.
BatchExpStage(e, input_labels, stage, loc, received) ==
    With(IF stage = 0 THEN [e |-> e, h |-> input_labels]
         ELSE BatchMultEnd(e, loc, received),
         LAMBDA m :
            IF stage < LOG_PERM_SIZE
            THEN BatchMultStage(m.e, m.h, m.h, 0, loc, <<>>)
            ELSE IF m.e.panicked THEN Returned(m.e, <<>>, <<>>)
            ELSE With(BatchExpCopyLoop(m.e, 1, m.h, <<>>), LAMBDA r :
                    Returned(r.e, r.h, <<>>)))

\* utils::compute_root: x.sqrt().unwrap().  HasRoot tells whether the
\* unwrap succeeds; the root returned is the smaller of the two.
HasRoot(x) == \E r \in F : FMul(r, r) = x

compute_root(x) ==
    CHOOSE r \in F : FMul(r, r) = x /\ \A t \in F : FMul(t, t) = x => r <= t

RECURSIVE RootLoop(_, _)
\* `for _ in 0..LOG_PERM_SIZE { l = compute_root(&l) }`; -1 stands for a
\* failed unwrap.
RootLoop(l, k) ==
    IF k = 0 \/ l = -1 THEN l
    ELSE IF HasRoot(l) THEN RootLoop(compute_root(l), k - 1) ELSE -1

RECURSIVE BatchRan64OutLoop_ChecksOwnShare(_, _, _, _, _)
\* A faulty BatchRan64OutLoop: the zero test reads the party's own share of
\* a, not the opened power.
BatchRan64OutLoop_ChecksOwnShare(e, i, h_as, a_exp_64s, h_c) ==
    IF e.panicked \/ i > Len(h_as) THEN [e |-> e, h |-> h_c]
    ELSE IF get_wire(e, h_as[i]) = 0 THEN [e |-> Panic(e), h |-> h_c]
    ELSE With(RootLoop(a_exp_64s[i], LOG_PERM_SIZE), LAMBDA l :
         With(compute_fresh_wire_label(e), LAMBDA f :
            IF l = -1 THEN [e |-> Panic(e), h |-> h_c]
            ELSE BatchRan64OutLoop_ChecksOwnShare(
                    Insert(f.e, f.h,
                           IF l = 0 THEN 0
                           ELSE FMul(get_wire(e, h_as[i]), FInv(l))),
                    i + 1, h_as, a_exp_64s, Append(h_c, f.h))))

RECURSIVE BatchRan64OutLoop_AddsRoot(_, _, _, _, _)
\* A faulty BatchRan64OutLoop: the root is added to the party's share of a,
\* not divided out of it.
BatchRan64OutLoop_AddsRoot(e, i, h_as, a_exp_64s, h_c) ==
    IF e.panicked \/ i > Len(h_as) THEN [e |-> e, h |-> h_c]
    ELSE IF a_exp_64s[i] = 0 THEN [e |-> Panic(e), h |-> h_c]
    ELSE With(RootLoop(a_exp_64s[i], LOG_PERM_SIZE), LAMBDA l :
         With(compute_fresh_wire_label(e), LAMBDA f :
            IF l = -1 THEN [e |-> Panic(e), h |-> h_c]
            ELSE BatchRan64OutLoop_AddsRoot(
                    Insert(f.e, f.h, FAdd(get_wire(e, h_as[i]), l)),
                    i + 1, h_as, a_exp_64s, Append(h_c, f.h))))

RECURSIVE BatchRan64OutLoop(_, _, _, _, _)
\* The loop of batch_ran_64 over the opened a^(2^LOG_PERM_SIZE).
BatchRan64OutLoop(e, i, h_as, a_exp_64s, h_c) ==
    IF e.panicked \/ i > Len(h_as) THEN [e |-> e, h |-> h_c]
    ELSE IF a_exp_64s[i] = 0 THEN [e |-> Panic(e), h |-> h_c]
    ELSE With(RootLoop(a_exp_64s[i], LOG_PERM_SIZE), LAMBDA l :
         With(compute_fresh_wire_label(e), LAMBDA f :
            IF l = -1 THEN [e |-> Panic(e), h |-> h_c]
            ELSE BatchRan64OutLoop(
                    Insert(f.e, f.h, FMul(get_wire(e, h_as[i]), FInv(l))),
                    i + 1, h_as, a_exp_64s, Append(h_c, f.h))))

\* batch_ran_64(len).
BatchRan64Stage(e, len, stage, loc, received) ==
    IF stage <= LOG_PERM_SIZE
    THEN With(IF stage = 0 THEN RanLoop(e, len, <<>>)
              ELSE [e |-> e, h |-> loc.aux],
              LAMBDA r :
         With(BatchExpStage(r.e, r.h, stage, loc, received), LAMBDA o :
            IF o.e.panicked \/ ~o.done THEN [o EXCEPT !.loc.aux = r.h]
            ELSE OpenBatch(o.e, o.ret.handles,
                           [EmptyLoc EXCEPT !.aux = r.h,
                                            !.tmp = o.ret.handles])))
    ELSE With(BatchRan64OutLoop(e, 1, loc.aux,
                                BatchOutputWireRecv(e, loc.tmp, received),
                                <<>>),
              LAMBDA r : Returned(r.e, r.h, <<>>))

\* ------------------------------------------------------ share polynomials
\* A polynomial is the sequence of its coefficients, lowest first, without
\* trailing zeros (DensePolynomial::from_coefficients_vec drops them).
RECURSIVE from_coefficients_vec(_)
from_coefficients_vec(coeffs) ==
    IF coeffs = <<>> \/ coeffs[Len(coeffs)] # 0 THEN coeffs
    ELSE from_coefficients_vec(SubSeq(coeffs, 1, Len(coeffs) - 1))

\* requires_power_of_2!(x)
IsPowerOf2(x) == x > 0 /\ \E k \in 0 .. x : 2 ^ k = x

\* Whether F has a multiplicative subgroup of nn elements
\* (Radix2EvaluationDomain::new(nn) is Some).
HasSubgroup(nn) ==
    \E w \in F \ {0} : FPow(w, nn) = 1 /\ \A d \in 1 .. (nn - 1) : FPow(w, d) # 1

\* F::TWO_ADICITY: |F| - 1 is 2^TWO_ADICITY times an odd number.
TWO_ADICITY == 2

\* F::TWO_ADIC_ROOT_OF_UNITY: an element of order 2^TWO_ADICITY.
TWO_ADIC_ROOT_OF_UNITY == 2

\* trailing_zeros of a power of two.
Log2(size) == CHOOSE k \in 0 .. size : 2 ^ k = size

RECURSIVE SquareTimes(_, _)
\* omega.square_in_place(), k times.
SquareTimes(omega, k) ==
    IF k = 0 THEN omega ELSE SquareTimes(FMul(omega, omega), k - 1)

Radix2EvaluationDomain_SquaresLogTimes(size) ==
    IF Log2(size) > TWO_ADICITY THEN [ok |-> FALSE, group_gen |-> 0]
    ELSE [ok |-> TRUE,
          group_gen |-> SquareTimes(TWO_ADIC_ROOT_OF_UNITY, Log2(size))]

\* Radix2EvaluationDomain::<F>::new(size) for a power of two: None when
\* size exceeds 2^TWO_ADICITY, else the domain whose group_gen is
\* F::get_root_of_unity(size), the two-adic root squared
\* TWO_ADICITY - log2(size) times.
Radix2EvaluationDomain(size) ==
    IF Log2(size) > TWO_ADICITY THEN [ok |-> FALSE, group_gen |-> 0]
    ELSE [ok |-> TRUE,
          group_gen |-> SquareTimes(TWO_ADIC_ROOT_OF_UNITY,
                                    TWO_ADICITY - Log2(size))]

\* utils::multiplicative_subgroup_of_size(nn): the generator of the
\* evaluation domain of size nn.
multiplicative_subgroup_of_size(nn) == Radix2EvaluationDomain(nn).group_gen

compute_power(x, k) == FPow(x, k)

\* A faulty interpolate_poly_over_mult_subgroup: the inverse transform
\* without the division by the size of the domain.
interpolate_poly_over_mult_subgroup_Unscaled(v) ==
    from_coefficients_vec(
        [j \in 1 .. Len(v) |->
            SumSeq([i \in 1 .. Len(v) |->
                      FMul(v[i],
                           FPow(FInv(multiplicative_subgroup_of_size(Len(v))),
                                (i - 1) * (j - 1)))])])

\* utils::interpolate_poly_over_mult_subgroup(v): the polynomial whose values
\* at the powers of the generator of the domain of size Len(v) are v (the
\* inverse transform: coefficient j is 1/len times the sum of
\* v[i] * w^(-i*j)).
interpolate_poly_over_mult_subgroup(v) ==
    from_coefficients_vec(
        [j \in 1 .. Len(v) |->
            FMul(FInv(Len(v) % P),
                 SumSeq([i \in 1 .. Len(v) |->
                           FMul(v[i],
                                FPow(FInv(multiplicative_subgroup_of_size(Len(v))),
                                     (i - 1) * (j - 1)))]))])

RECURSIVE SharePolyMultEvalLoop(_, _, _, _, _, _, _)
\* The loop `for i in 0..2 * PERM_SIZE` of share_poly_mult: the shares of
\* f and of g at the i-th power of alpha.
SharePolyMultEvalLoop(e, f_poly_share, g_poly_share, powers_of_alpha, i, f_evals, g_evals) ==
    IF i > Len(powers_of_alpha)
    THEN [e |-> e, f_evals |-> f_evals, g_evals |-> g_evals]
    ELSE With(share_poly_eval(e, f_poly_share, powers_of_alpha[i]), LAMBDA rf :
         With(share_poly_eval(rf.e, g_poly_share, powers_of_alpha[i]),
              LAMBDA rg :
                SharePolyMultEvalLoop(rg.e, f_poly_share, g_poly_share,
                                      powers_of_alpha, i + 1,
                                      Append(f_evals, rf.h),
                                      Append(g_evals, rg.h))))

\* share_poly_mult(f_poly_share, g_poly_share): stage 0 to the recv of
\* batch_mult, stage 1 the products' shares and their interpolation.
SharePolyMultStage(e, f_poly_share, g_poly_share, stage, loc, received) ==
    IF stage = 0
    THEN IF e.panicked THEN Blocked(e, <<>>, <<>>, loc)
         ELSE IF ~IsPowerOf2(2 * PERM_SIZE) \/ ~HasSubgroup(2 * PERM_SIZE)
         THEN Blocked(Panic(e), <<>>, <<>>, loc)
         ELSE With(SharePolyMultEvalLoop(e, f_poly_share, g_poly_share,
                      [i \in 1 .. 2 * PERM_SIZE |->
                          compute_power(
                              multiplicative_subgroup_of_size(2 * PERM_SIZE),
                              i - 1)],
                      1, <<>>, <<>>),
                   LAMBDA l :
                     BatchMultStage(l.e, l.f_evals, l.g_evals, 0, loc, <<>>))
    ELSE With(BatchMultEnd(e, loc, received), LAMBDA m :
            Returned(m.e, <<>>,
                     interpolate_poly_over_mult_subgroup(
                         [i \in DOMAIN m.h |-> get_wire(m.e, m.h[i])])))

\* ----------------------------------------------------------- pairing groups
\* G1, G2 and Gt are cyclic groups whose order is the size of F.  An element
\* is the pair of its group's name and its discrete logarithm to the base of
\* the group's generator, so that the group law is the addition of F, the
\* scalar multiplication its multiplication, and the pairing of a*g1 and
\* b*g2 is (a*b)*gT.
GroupZero(grp) == <<grp, 0>>

GroupGenerator(grp) == <<grp, 1>>

GroupAdd(a, b) == <<a[1], FAdd(a[2], b[2])>>

GroupMul(a, scalar) == <<a[1], FMul(a[2], scalar)>>

pairing(a, b) == <<"Gt", FMul(a[2], b[2])>>

RECURSIVE BytesValue(_)
\* The number a byte string denotes, most significant byte first.
BytesValue(inp) ==
    IF inp = <<>> THEN 0
    ELSE 256 * BytesValue(SubSeq(inp, 1, Len(inp) - 1)) + inp[Len(inp)]

\* hash_to_g1: a fixed map from byte strings to G1 (the hash is not
\* modelled bit by bit); it never yields the identity.
hash_to_g1(inp) == <<"G1", 1 + (BytesValue(inp) % (P - 1))>>

\* The wire payload of a group element: base58 of its canonical
\* serialization, here the one byte of its logarithm.
encode_g1_as_bs58_str(v) == encode_f_as_bs58_str(v[2])

encode_g2_as_bs58_str(v) == encode_f_as_bs58_str(v[2])

encode_gt_as_bs58_str(v) == encode_f_as_bs58_str(v[2])

decode_bs58_str_as_g1(s) == <<"G1", Base58Value(s)>>

decode_bs58_str_as_g2(s) == <<"G2", Base58Value(s)>>

decode_bs58_str_as_gt(s) == <<"Gt", Base58Value(s)>>

\* The encoder and the decoder a reconstruction in group grp uses.
EncodeIn(grp, v) ==
    IF grp = "G1" THEN encode_g1_as_bs58_str(v)
    ELSE IF grp = "G2" THEN encode_g2_as_bs58_str(v)
    ELSE encode_gt_as_bs58_str(v)

DecodeIn(grp, s) ==
    IF grp = "G1" THEN decode_bs58_str_as_g1(s)
    ELSE IF grp = "G2" THEN decode_bs58_str_as_g2(s)
    ELSE decode_bs58_str_as_gt(s)

RECURSIVE reconstruct_group(_, _)
\* reconstruct_g1 / reconstruct_g2 / reconstruct_gt:
\* shares.values().fold(zero, +) over a HashMap sender -> share.
reconstruct_group(shares, grp) ==
    IF DOMAIN shares = {} THEN GroupZero(grp)
    ELSE With(CHOOSE x \in DOMAIN shares : TRUE, LAMBDA k :
            GroupAdd(reconstruct_group([x \in DOMAIN shares \ {k} |-> shares[x]],
                                       grp),
                     shares[k]))

\* .into_iter().map(|(x, y)| (x, decode(y))).collect::<HashMap<u64, G>>()
\* followed by insert(my_id, value), for a group.
CollectIncomingIn(grp, msgs, my_id, value) ==
    [s \in {m[1] : m \in Range(msgs)} \cup {my_id} |->
        IF s = my_id THEN value
        ELSE DecodeIn(grp,
                msgs[CHOOSE i \in DOMAIN msgs :
                        /\ msgs[i][1] = s
                        /\ \A k \in DOMAIN msgs : msgs[k][1] = s => k <= i][2])]

\* add_g1/g2/gt_elements_from_all_parties from its recv_from_all on.
AddElementsRecv(e, grp, value, received) ==
    reconstruct_group(CollectIncomingIn(grp, received, get_my_id(e), value), grp)

\* A faulty AddElementsStage: the routine takes a fresh wire label before it
\* sends.
AddElementsStage_TakesLabel(e, grp, value, identifier, stage, loc, received) ==
    IF stage = 0
    THEN Blocked(compute_fresh_wire_label(e).e,
                 << << <<identifier, EncodeIn(grp, value)>> >> >>,
                 <<identifier>>, loc)
    ELSE Returned(e, <<>>, <<AddElementsRecv(e, grp, value, received[1])>>)

\* add_g1/g2/gt_elements_from_all_parties(value, identifier) in group grp:
\* the send_to_all of the encoded value (stage 0), then the sum of the
\* values of all parties.
AddElementsStage(e, grp, value, identifier, stage, loc, received) ==
    IF stage = 0
    THEN Blocked(e, << << <<identifier, EncodeIn(grp, value)>> >> >>,
                 <<identifier>>, loc)
    ELSE Returned(e, <<>>, <<AddElementsRecv(e, grp, value, received[1])>>)

\* Above this many items a batched reconstruction in G1 (`len > 256`, line
\* 513) and in Gt (`len > 64`, line 604) sends in slices; scaled down as
\* F_CHUNK is, the threshold of Gt staying the smaller one.
G1_CHUNK == 4
GT_CHUNK == 2

\* batch_add_g1/gt_elements_from_all_parties up to its last send: the
\* assertion on the lengths, then the sends.
BatchAddElementsSend(e, grp, inputs, identifiers, chunk) ==
    IF e.panicked THEN [e |-> e, sends |-> <<>>]
    ELSE IF Len(inputs) # Len(identifiers) THEN [e |-> Panic(e), sends |-> <<>>]
    ELSE [e |-> e,
          sends |-> BatchSends(identifiers,
                               [i \in DOMAIN inputs |-> EncodeIn(grp, inputs[i])],
                               chunk)]

\* batch_add_g1/gt_elements_from_all_parties from its first recv_from_all
\* on: received[i] is what recv_from_all(identifiers[i]) returned.
BatchAddElementsRecv(e, grp, inputs, received) ==
    [i \in DOMAIN inputs |-> AddElementsRecv(e, grp, inputs[i], received[i])]

\* A faulty BatchAddElementsStage: the receives go through the identifiers
\* from the last to the first.
BatchAddElementsStage_ReceivesBackwards(e, grp, inputs, identifiers, chunk, stage, loc, received) ==
    IF stage = 0
    THEN With(BatchAddElementsSend(e, grp, inputs, identifiers, chunk),
              LAMBDA s :
                Blocked(s.e, s.sends,
                        [i \in DOMAIN identifiers |->
                            identifiers[Len(identifiers) + 1 - i]],
                        loc))
    ELSE Returned(e, <<>>, BatchAddElementsRecv(e, grp, inputs, received))

\* batch_add_g1/gt_elements_from_all_parties(inputs, identifiers).
BatchAddElementsStage(e, grp, inputs, identifiers, chunk, stage, loc, received) ==
    IF stage = 0
    THEN With(BatchAddElementsSend(e, grp, inputs, identifiers, chunk),
              LAMBDA s : Blocked(s.e, s.sends, identifiers, loc))
    ELSE Returned(e, <<>>, BatchAddElementsRecv(e, grp, inputs, received))

BatchAddG1Stage(e, inputs, identifiers, stage, loc, received) ==
    BatchAddElementsStage(e, "G1", inputs, identifiers, G1_CHUNK, stage, loc,
                          received)

BatchAddGtStage(e, inputs, identifiers, stage, loc, received) ==
    BatchAddElementsStage(e, "Gt", inputs, identifiers, GT_CHUNK, stage, loc,
                          received)

RECURSIVE ShareExpsLoop(_, _, _, _)
\* The loop `for i in 0..wire_handles.len()` of
\* batch_output_wire_in_exponent: g^[x] for the share under every handle.
ShareExpsLoop(e, wire_handles, i, my_share_exps) ==
    IF e.panicked \/ i > Len(wire_handles)
    THEN [e |-> e, out |-> my_share_exps]
    ELSE IF ~HasWire(e, wire_handles[i])
    THEN [e |-> Panic(e), out |-> my_share_exps]
    ELSE ShareExpsLoop(e, wire_handles, i + 1,
            Append(my_share_exps,
                   GroupMul(GroupGenerator("G1"),
                            get_wire(e, wire_handles[i]))))

\* batch_output_wire_in_exponent(wire_handles): the shares in the exponent,
\* then batch_add_g1_elements_from_all_parties on them under the handles.
BatchOutputWireInExponentStage(e, wire_handles, stage, loc, received) ==
    IF stage = 0
    THEN With(ShareExpsLoop(e, wire_handles, 1, <<>>), LAMBDA m :
            BatchAddG1Stage(m.e, m.out, wire_handles, 0,
                            [loc EXCEPT !.vals = m.out], <<>>))
    ELSE BatchAddG1Stage(e, loc.vals, wire_handles, stage, loc, received)

RECURSIVE MsmLoop_FirstExponent(_, _, _, _, _)
\* A faulty MsmLoop: every base is raised to the share under the first
\* exponent handle.
MsmLoop_FirstExponent(e, bases, exponent_handles, i, sum) ==
    IF e.panicked \/ i > Len(bases) \/ i > Len(exponent_handles)
    THEN [e |-> e, sum |-> sum]
    ELSE IF ~HasWire(e, exponent_handles[1]) THEN [e |-> Panic(e), sum |-> sum]
    ELSE MsmLoop_FirstExponent(e, bases, exponent_handles, i + 1,
            GroupAdd(sum, GroupMul(bases[i], get_wire(e, exponent_handles[1]))))

RECURSIVE MsmLoop(_, _, _, _, _)
\* `for (base, exponent_handle) in bases.iter().zip(exponent_handles.iter())`
\* of exp_and_reveal_*: zip stops at the end of the shorter list.
MsmLoop(e, bases, exponent_handles, i, sum) ==
    IF e.panicked \/ i > Len(bases) \/ i > Len(exponent_handles)
    THEN [e |-> e, sum |-> sum]
    ELSE IF ~HasWire(e, exponent_handles[i]) THEN [e |-> Panic(e), sum |-> sum]
    ELSE MsmLoop(e, bases, exponent_handles, i + 1,
                 GroupAdd(sum, GroupMul(bases[i],
                                        get_wire(e, exponent_handles[i]))))

\* exp_and_reveal_g1 / _g2 / _gt in group grp: the local multi-scalar
\* product with the party's shares as exponents (stage 0, to the recv of
\* add_*_elements_from_all_parties), then the sum of all parties' products.
ExpAndRevealStage(e, grp, bases, exponent_handles, identifier, stage, loc, received) ==
    IF stage = 0
    THEN With(MsmLoop(e, bases, exponent_handles, 1, GroupZero(grp)), LAMBDA m :
            Blocked(m.e, << << <<identifier, EncodeIn(grp, m.sum)>> >> >>,
                    <<identifier>>, [loc EXCEPT !.share = m.sum]))
    ELSE Returned(e, <<>>, <<AddElementsRecv(e, grp, loc.share, received[1])>>)

ExpAndRevealG1Stage(e, bases, exponent_handles, identifier, stage, loc, received) ==
    ExpAndRevealStage(e, "G1", bases, exponent_handles, identifier, stage, loc,
                      received)

ExpAndRevealG2Stage(e, bases, exponent_handles, identifier, stage, loc, received) ==
    ExpAndRevealStage(e, "G2", bases, exponent_handles, identifier, stage, loc,
                      received)

ExpAndRevealGtStage(e, bases, exponent_handles, identifier, stage, loc, received) ==
    ExpAndRevealStage(e, "Gt", bases, exponent_handles, identifier, stage, loc,
                      received)

RECURSIVE BatchMsmInnerLoop(_, _, _, _, _)
\* The inner loop of batch_exp_and_reveal_gt over the zip of one base vector
\* and its exponent handles; an exponent share equal to 1 adds the base
\* itself.
BatchMsmInnerLoop(e, bases, exponent_handles, j, sum) ==
    IF e.panicked \/ j > Len(bases) \/ j > Len(exponent_handles)
    THEN [e |-> e, sum |-> sum]
    ELSE IF ~HasWire(e, exponent_handles[j]) THEN [e |-> Panic(e), sum |-> sum]
    ELSE BatchMsmInnerLoop(e, bases, exponent_handles, j + 1,
            IF get_wire(e, exponent_handles[j]) = 1
            THEN GroupAdd(sum, bases[j])
            ELSE GroupAdd(sum, GroupMul(bases[j],
                                        get_wire(e, exponent_handles[j]))))

RECURSIVE BatchMsmLoop(_, _, _, _, _)
\* The loop `for i in 0..len` of batch_exp_and_reveal_gt.
BatchMsmLoop(e, bases, exponent_handles, i, group_elements) ==
    IF e.panicked \/ i > Len(bases) THEN [e |-> e, out |-> group_elements]
    ELSE With(BatchMsmInnerLoop(e, bases[i], exponent_handles[i], 1,
                                GroupZero("Gt")),
              LAMBDA m :
                BatchMsmLoop(m.e, bases, exponent_handles, i + 1,
                             Append(group_elements, m.sum)))

\* batch_exp_and_reveal_gt(bases, exponent_handles, identifiers).
BatchExpAndRevealGtStage(e, bases, exponent_handles, identifiers, stage, loc, received) ==
    IF stage = 0
    THEN IF e.panicked THEN Blocked(e, <<>>, <<>>, loc)
         ELSE IF ~(Len(bases) = Len(exponent_handles)
                    /\ Len(bases) = Len(identifiers))
         THEN Blocked(Panic(e), <<>>, <<>>, loc)
         ELSE With(BatchMsmLoop(e, bases, exponent_handles, 1, <<>>), LAMBDA m :
              With(BatchAddElementsSend(m.e, "Gt", m.out, identifiers, GT_CHUNK),
                   LAMBDA s :
                     Blocked(s.e, s.sends, identifiers,
                             [loc EXCEPT !.tmp = m.out])))
    ELSE Returned(e, <<>>, BatchAddElementsRecv(e, "Gt", loc.tmp, received))

\* The prefixes of the identifiers of the two reconstructions of an
\* encryption: "ibe_c1_" and "ibe_c2".
IbeC1Tag == <<"i", "b", "e", "_", "c", "1", "_">>

IbeC2Tag == <<"i", "b", "e", "_", "c", "2">>

\* A faulty DistIbeEncryptStage: the routine draws a random sharing of its
\* own before it starts.
DistIbeEncryptStage_DrawsMask(e, msg_share_handle, mask_share_handle, pk, id, stage, loc, received) ==
    IF stage = 0
    THEN ExpAndRevealG1Stage(ran(e).e, <<GroupGenerator("G1")>>,
                             <<mask_share_handle>>,
                             IbeC1Tag \o msg_share_handle \o mask_share_handle,
                             0, loc, <<>>)
    ELSE IF stage = 1
    THEN With(AddElementsRecv(e, "G1", loc.share, received[1]), LAMBDA c1 :
         With(ExpAndRevealGtStage(e,
                 <<GroupGenerator("Gt"), pairing(hash_to_g1(id), pk)>>,
                 <<msg_share_handle, mask_share_handle>>,
                 IbeC2Tag \o msg_share_handle \o mask_share_handle,
                 0, loc, <<>>),
              LAMBDA o : [o EXCEPT !.loc.vals = <<c1>>]))
    ELSE Returned(e, <<>>,
                  <<loc.vals[1], AddElementsRecv(e, "Gt", loc.share, received[1])>>)

\* A faulty DistIbeEncryptStage: after the second reconstruction the party
\* broadcasts the C2 it obtained once more.
DistIbeEncryptStage_EchoesC2(e, msg_share_handle, mask_share_handle, pk, id, stage, loc, received) ==
    IF stage = 0
    THEN ExpAndRevealG1Stage(e, <<GroupGenerator("G1")>>, <<mask_share_handle>>,
                             IbeC1Tag \o msg_share_handle \o mask_share_handle,
                             0, loc, <<>>)
    ELSE IF stage = 1
    THEN With(AddElementsRecv(e, "G1", loc.share, received[1]), LAMBDA c1 :
         With(ExpAndRevealGtStage(e,
                 <<GroupGenerator("Gt"), pairing(hash_to_g1(id), pk)>>,
                 <<msg_share_handle, mask_share_handle>>,
                 IbeC2Tag \o msg_share_handle \o mask_share_handle,
                 0, loc, <<>>),
              LAMBDA o : [o EXCEPT !.loc.vals = <<c1>>]))
    ELSE With(AddElementsRecv(e, "Gt", loc.share, received[1]), LAMBDA c2 :
            [Returned(e, <<>>, <<loc.vals[1], c2>>) EXCEPT
                !.sends = << << <<IbeC2Tag, encode_gt_as_bs58_str(c2)>> >> >>])

\* dist_ibe_encrypt(msg_share_handle, mask_share_handle, pk, id): the two
\* exp_and_reveal calls one after the other.
DistIbeEncryptStage(e, msg_share_handle, mask_share_handle, pk, id, stage, loc, received) ==
    IF stage = 0
    THEN ExpAndRevealG1Stage(e, <<GroupGenerator("G1")>>, <<mask_share_handle>>,
                             IbeC1Tag \o msg_share_handle \o mask_share_handle,
                             0, loc, <<>>)
    ELSE IF stage = 1
    THEN With(AddElementsRecv(e, "G1", loc.share, received[1]), LAMBDA c1 :
         With(ExpAndRevealGtStage(e,
                 <<GroupGenerator("Gt"), pairing(hash_to_g1(id), pk)>>,
                 <<msg_share_handle, mask_share_handle>>,
                 IbeC2Tag \o msg_share_handle \o mask_share_handle,
                 0, loc, <<>>),
              LAMBDA o : [o EXCEPT !.loc.vals = <<c1>>]))
    ELSE Returned(e, <<>>,
                  <<loc.vals[1], AddElementsRecv(e, "Gt", loc.share, received[1])>>)

\* A faulty OneWire: the constant is stored as an additive sharing of one
\* (fixed_wire_handle).
OneWire_AsSharingOfOne(e) == fixed_wire_handle(e, 1)

\* The wire of the constant one of the batched encryption (lines 856-857):
\* a fresh handle under which every party stores F::one().
OneWire(e) ==
    With(compute_fresh_wire_label(e), LAMBDA f :
        [e |-> Insert(f.e, f.h, 1), h |-> f.h])

\* batch_dist_ibe_encrypt_with_common_mask(msg_share_handles,
\* mask_share_handle, pk, ids).  Stage 0: the e_i of every id and the
\* exp_and_reveal_g2 of C1; stage 1: the bases (e_is[i] for every message,
\* an index out of bounds when the ids are fewer), the wire of the constant
\* one and batch_exp_and_reveal_gt; stage 2: the return.
BatchDistIbeEncryptStage(e, msg_share_handles, mask_share_handle, pk, ids, stage, loc, received) ==
    IF stage = 0
    THEN IF e.panicked THEN Blocked(e, <<>>, <<>>, loc)
         ELSE IF ~HasWire(e, mask_share_handle)
         THEN Blocked(Panic(e), <<>>, <<>>, loc)
         ELSE With(ExpAndRevealG2Stage(e, <<GroupGenerator("G2")>>,
                                       <<mask_share_handle>>,
                                       IbeC1Tag \o mask_share_handle, 0, loc,
                                       <<>>),
                   LAMBDA o :
                     [o EXCEPT !.loc.aux =
                        [i \in DOMAIN ids |->
                            pairing(GroupMul(hash_to_g1(ids[i]),
                                             get_wire(e, mask_share_handle)),
                                    pk)]])
    ELSE IF stage = 1
    THEN With(AddElementsRecv(e, "G2", loc.share, received[1]), LAMBDA c1 :
            IF Len(msg_share_handles) > Len(loc.aux)
            THEN Blocked(Panic(e), <<>>, <<>>, loc)
            ELSE With(OneWire(e), LAMBDA f :
                 With(BatchExpAndRevealGtStage(f.e,
                         [i \in DOMAIN msg_share_handles |->
                             <<GroupGenerator("Gt"), loc.aux[i]>>],
                         [i \in DOMAIN msg_share_handles |->
                             <<msg_share_handles[i], f.h>>],
                         [i \in DOMAIN msg_share_handles |->
                             IbeC2Tag \o msg_share_handles[i]],
                         0, loc, <<>>),
                      LAMBDA o : [o EXCEPT !.loc.vals = <<c1>>])))
    ELSE Returned(e, <<>>,
                  <<loc.vals[1],
                    BatchAddElementsRecv(e, "Gt", loc.tmp, received)>>)

\* ---------------------------------------------------- evaluation proofs
PolyIsZero(f) == \A i \in DOMAIN f : f[i] = 0

\* DensePolynomial::degree: the index of the last coefficient.
PolyDegree(f) == IF PolyIsZero(f) THEN 0 ELSE Len(f) - 1

RECURSIVE DivideLoop(_, _, _)
\* The loop of DenseOrSparsePolynomial::divide_with_q_and_r: while the
\* remainder is not of lower degree than the divisor, the quotient gets the
\* ratio of the leading coefficients at the difference of the degrees and
\* that multiple of the divisor is taken off the remainder.
DivideLoop(quotient, remainder, divisor) ==
    IF PolyIsZero(remainder) \/ PolyDegree(remainder) < PolyDegree(divisor)
    THEN [ok |-> TRUE, q |-> from_coefficients_vec(quotient), r |-> remainder]
    ELSE With(FMul(remainder[Len(remainder)], FInv(divisor[Len(divisor)])),
              LAMBDA cur_q_coeff :
         With(PolyDegree(remainder) - PolyDegree(divisor),
              LAMBDA cur_q_degree :
                DivideLoop(
                    [quotient EXCEPT ![cur_q_degree + 1] = cur_q_coeff],
                    from_coefficients_vec(
                        [j \in 1 .. Len(remainder) |->
                            IF (j - cur_q_degree) \in DOMAIN divisor
                            THEN FSub(remainder[j],
                                      FMul(cur_q_coeff,
                                           divisor[j - cur_q_degree]))
                            ELSE remainder[j]]),
                    divisor)))

\* divide_with_q_and_r(self, divisor) -> Option<(q, r)>: ok is FALSE for
\* None.
divide_with_q_and_r(f, divisor) ==
    IF PolyIsZero(f) THEN [ok |-> TRUE, q |-> <<>>, r |-> <<>>]
    ELSE IF PolyIsZero(divisor) THEN [ok |-> FALSE, q |-> <<>>, r |-> <<>>]
    ELSE IF PolyDegree(f) < PolyDegree(divisor)
    THEN [ok |-> TRUE, q |-> <<>>, r |-> f]
    ELSE DivideLoop([i \in 1 .. (PolyDegree(f) - PolyDegree(divisor) + 1) |-> 0],
                    f, divisor)

\* UniversalParams: the powers tau^0, tau^1, ... of the setup's secret in
\* G1, as many as max_degree + 1.
UniversalParams(tau, max_degree) ==
    [powers_of_g |-> [i \in 1 .. (max_degree + 1) |->
                         GroupMul(GroupGenerator("G1"), FPow(tau, i - 1))]]

RECURSIVE CommitLoop(_, _, _, _)
CommitLoop(pp, poly, i, acc) ==
    IF i > Len(poly) THEN acc
    ELSE CommitLoop(pp, poly, i + 1,
                    GroupAdd(acc, GroupMul(pp.powers_of_g[i], poly[i])))

\* KZG::commit_g1(pp, poly): the linear commitment, the sum of the
\* parameters' powers weighted by the coefficients, g^{poly(tau)}.
commit_g1(pp, poly) == CommitLoop(pp, poly, 1, GroupZero("G1"))

eval_proof_with_share_poly_DividesByXPlusZ(pp, share_poly, z) ==
    With(divide_with_q_and_r(share_poly, from_coefficients_vec(<<z, 1>>)),
         LAMBDA d :
           IF d.ok THEN [ok |-> TRUE, proof |-> commit_g1(pp, d.q)]
           ELSE [ok |-> FALSE, proof |-> GroupZero("G1")])

\* eval_proof_with_share_poly(pp, share_poly, z): the commitment to the
\* quotient of the party's polynomial by X - z; ok is FALSE where the
\* unwrap of the division panics.
eval_proof_with_share_poly(pp, share_poly, z) ==
    With(divide_with_q_and_r(share_poly,
                             from_coefficients_vec(<<FSub(0, z), 1>>)),
         LAMBDA d :
           IF d.ok THEN [ok |-> TRUE, proof |-> commit_g1(pp, d.q)]
           ELSE [ok |-> FALSE, proof |-> GroupZero("G1")])

RECURSIVE BatchEvalProofLoop(_, _, _, _, _)
\* for i in 0..share_polys.len(): the quotient of share_polys[i] by
\* X - z_s[i]; z_s[i] panics where z_s is the shorter list.
BatchEvalProofLoop(pp, share_polys, z_s, i, proofs) ==
    IF i > Len(share_polys) THEN [ok |-> TRUE, proofs |-> proofs]
    ELSE IF i > Len(z_s) THEN [ok |-> FALSE, proofs |-> <<>>]
    ELSE With(eval_proof_with_share_poly(pp, share_polys[i], z_s[i]),
              LAMBDA r :
                IF r.ok
                THEN BatchEvalProofLoop(pp, share_polys, z_s, i + 1,
                                        Append(proofs, r.proof))
                ELSE [ok |-> FALSE, proofs |-> <<>>])

batch_eval_proof_with_share_poly(pp, share_polys, z_s) ==
    BatchEvalProofLoop(pp, share_polys, z_s, 1, <<>>)

\* ------------------------------------------------------------------- state
VARIABLES
    n,            \* number of parties: addr_book.len()
    seeded_rng,   \* seed of StdRng::from_seed([42; 32]) (the same at all parties)
    shamir_rng,   \* seed of ChaCha8Rng::from_seed([1; 32]) (the same at all parties)
    thread_rng,   \* thread_rng[p]: seed of party p's own generator
    ev,           \* ev[p]: party p's Evaluator
    pc,           \* pc[p]: "start" (before Evaluator::new), "idle" (between
                  \*   gate calls), "waiting" (inside a gate, at a
                  \*   recv_from_all), "panicked"
    frame,        \* frame[p]: the gate call party p is inside of
    inbox,        \* inbox[q][s]: the (identifier, payload) pairs party s has
                  \*   sent and party q has not yet received, oldest first
    prog,         \* the gate calls of the circuit issued so far
    ip,           \* ip[p]: how many calls of prog party p has started
    returned      \* returned[p]: what each gate call that returned at p returned

vars == <<n, seeded_rng, shamir_rng, thread_rng, ev, pc, frame, inbox, prog,
          ip, returned>>

Parties == 1 .. n

\* Evaluator { wire_shares: HashMap::new(), beaver_triples: Vec::new(), ...
\* gate_counter: 0, ... } (new, lines 42-50).
EmptyEvaluator(my_id, nn) ==
    [messaging      |-> [my_id |-> my_id,
                         addr_book |-> parse_addr_book_from_json(nn)],
     beaver_triples |-> <<>>,
     rand_sharings  |-> <<>>,
     wire_shares    |-> <<>>,
     gate_counter   |-> 0,
     beaver_counter |-> 0,
     rand_counter   |-> 0,
     panicked       |-> FALSE]

\* Evaluator::new: the empty evaluator, then the two preprocessing passes.
\* A faulty new: the counter of triples is set to the number of triples
\* made, as if they were consumed.
new_CountsTriples(my_id, nn, seed, local, shamir_seed) ==
    [EmptyEvaluator(my_id, nn) EXCEPT
        !.beaver_triples =
            preprocess_triples(NUM_BEAVER_TRIPLES, nn, my_id, seed, local),
        !.rand_sharings =
            preprocess_rand_sharings(NUM_RAND_SHARINGS, nn, my_id, shamir_seed),
        !.beaver_counter = NUM_BEAVER_TRIPLES]

new(my_id, nn, seed, local, shamir_seed) ==
    LET e0 == EmptyEvaluator(my_id, nn)
        len == Cardinality(e0.messaging.addr_book)
    IN  [e0 EXCEPT
            !.beaver_triples =
                preprocess_triples(NUM_BEAVER_TRIPLES, len, my_id, seed, local),
            !.rand_sharings =
                preprocess_rand_sharings(NUM_RAND_SHARINGS, len, my_id,
                                         shamir_seed)]

NoCall ==
    [op |-> "none", xs |-> <<>>, ys |-> <<>>, k |-> 0, polys |-> <<>>,
     polys_g |-> <<>>, pk |-> <<>>, ids |-> <<>>, bases |-> <<>>,
     pp |-> [powers_of_g |-> <<>>], z_s |-> <<>>]

\* sent: the send_to_all calls of the stage the party ran last, each the
\* sequence of its (identifier, payload) pairs.  since: the gate counter the
\* party had when it started the call.
NoFrame ==
    [call |-> NoCall, stage |-> 0, loc |-> EmptyLoc, wait |-> <<>>,
     sent |-> <<>>, since |-> 0]

\* The state before any party has built its evaluator.  The seeds are drawn
\* from the given sets.
InitWith(ns, seeded_seeds, shamir_seeds, local_seeds) ==
    /\ n \in ns
    /\ seeded_rng \in seeded_seeds
    /\ shamir_rng \in shamir_seeds
    /\ thread_rng \in [1 .. n -> local_seeds]
    /\ ev = [p \in 1 .. n |-> EmptyEvaluator(p, n)]
    /\ pc = [p \in 1 .. n |-> "start"]
    /\ frame = [p \in 1 .. n |-> NoFrame]
    /\ inbox = [q \in 1 .. n |-> [s \in 1 .. n |-> <<>>]]
    /\ prog = <<>>
    /\ ip = [p \in 1 .. n |-> 0]
    /\ returned = [p \in 1 .. n |-> <<>>]

\* ------------------------------------------------------- messaging adapter
\* send_to_all(handles, values) by party p: every other party's inbox gets
\* the pairs, in order.
Flatten(sends) ==
    IF sends = <<>> THEN <<>>
    ELSE LET F2[i \in 0 .. Len(sends)] ==
                 IF i = 0 THEN <<>> ELSE F2[i - 1] \o sends[i]
         IN  F2[Len(sends)]

send_to_all(inb, p, sends) ==
    [q \in DOMAIN inb |->
        IF q = p THEN inb[q]
        ELSE [inb[q] EXCEPT ![p] = @ \o Flatten(sends)]]

\* Position of the oldest pending message of sender s tagged id (0: none).
FirstTagged(box, id) ==
    IF \E i \in DOMAIN box : box[i][1] = id
    THEN CHOOSE i \in DOMAIN box :
            box[i][1] = id /\ \A k \in 1 .. (i - 1) : box[k][1] # id
    ELSE 0

RemoveAt(box, i) == SubSeq(box, 1, i - 1) \o SubSeq(box, i + 1, Len(box))

\* The other parties, in id order.
Others(q, nn) == [k \in 1 .. (nn - 1) |-> IF k < q THEN k ELSE k + 1]

RECURSIVE RecvAll(_, _, _, _)
\* recv_from_all(id) for each id of `ids` in turn at party q with inbox
\* boxes: each takes one message tagged id from every other party.
\* Result: ok (all were there), boxes (what is left), received (per id the
\* (sender, payload) pairs).
RecvAll(boxes, q, ids, acc) ==
    IF ids = <<>> THEN [ok |-> TRUE, boxes |-> boxes, received |-> acc]
    ELSE LET id == ids[1]
             nn == Cardinality(DOMAIN boxes)
             os == Others(q, nn)
         IN  IF \E k \in DOMAIN os : FirstTagged(boxes[os[k]], id) = 0
             THEN [ok |-> FALSE, boxes |-> boxes, received |-> acc]
             ELSE RecvAll(
                    [s \in DOMAIN boxes |->
                        IF s = q THEN boxes[s]
                        ELSE RemoveAt(boxes[s], FirstTagged(boxes[s], id))],
                    q, Tail(ids),
                    Append(acc,
                           [k \in DOMAIN os |->
                              <<os[k],
                                boxes[os[k]][FirstTagged(boxes[os[k]], id)][2]>>]))

\* ------------------------------------------------------------------ steps
\* A local gate as a one-stage call.
Local(r) ==
    Returned(r.e, IF r.e.panicked THEN <<>> ELSE <<r.h>>, <<>>)

RECURSIVE FlattenTriples(_)
FlattenTriples(ts) ==
    IF ts = <<>> THEN <<>> ELSE ts[1] \o FlattenTriples(Tail(ts))

\* What the recvs party p waits on return, when every answer is there.
Received(p) == RecvAll(inbox[p], p, frame[p].wait, <<>>)

\* A specification fixes a harness h: the schedule (h.lockstep), how many
\* gate calls a run issues (h.calls) and the sets the callers' arguments are
\* drawn from (h.scalars, h.points, h.inputs).

\* Whether party q can take a step: build its evaluator, start its next
\* gate call, or go on after the recvs it waits on.
Runnable(q, h) ==
    \/ pc[q] = "start"
    \/ pc[q] = "idle" /\ (ip[q] < Len(prog) \/ Len(prog) < h.calls)
    \/ pc[q] = "waiting" /\ Received(q).ok

\* How far party q has come: the call it is in or about to start (0 before
\* Evaluator::new), then the stage inside that call.
Progress(q) ==
    IF pc[q] = "start" THEN <<0, 0>>
    ELSE IF pc[q] = "waiting" THEN <<ip[q], frame[q].stage + 1>>
    ELSE <<ip[q] + 1, 0>>

Behind(a, b) == a[1] < b[1] \/ (a[1] = b[1] /\ a[2] < b[2])

\* The schedule.  The parties are separate processes that interact only
\* through the inboxes; with h.lockstep a party steps only when no runnable
\* party is behind it (the parties advance stage by stage, lowest id
\* first), without it any runnable party may step.
Turn(p, h) ==
    h.lockstep =>
        \A q \in Parties \ {p} :
            Runnable(q, h) =>
                ~(Behind(Progress(q), Progress(p))
                  \/ (Progress(q) = Progress(p) /\ q < p))

\* The state change of party p ending a stage of call c with outcome o;
\* boxes is the inbox table after p's receives.
Apply(p, c, stage, o, boxes) ==
    /\ ev' = [ev EXCEPT ![p] = o.e]
    /\ inbox' = send_to_all(boxes, p, o.sends)
    /\ pc' = [pc EXCEPT ![p] = IF o.e.panicked THEN "panicked"
                               ELSE IF o.done THEN "idle" ELSE "waiting"]
    /\ frame' = [frame EXCEPT ![p] =
                    IF o.e.panicked \/ o.done THEN NoFrame
                    ELSE [call |-> c, stage |-> stage, loc |-> o.loc,
                          wait |-> o.wait, sent |-> o.sends,
                          since |-> IF stage = 0 THEN ev[p].gate_counter
                                    ELSE frame[p].since]]
    /\ returned' = [returned EXCEPT ![p] =
                    IF ~o.e.panicked /\ o.done THEN Append(@, o.ret) ELSE @]
    /\ UNCHANGED <<n, seeded_rng, shamir_rng, thread_rng>>

\* The calls party p may start as its next call of kind op: the next call
\* of the circuit when another party has already issued it, else any call of
\* the menu (which then becomes the circuit's next call).
NextCalls(p, h, op, menu) ==
    IF ip[p] < Len(prog)
    THEN IF prog[ip[p] + 1].op = op THEN {prog[ip[p] + 1]} ELSE {}
    ELSE IF Len(prog) < h.calls THEN menu ELSE {}

\* Party p starts gate call c; o is the outcome of the call's stage 0 at
\* ev[p].
StartCall(p, c, o) ==
    /\ pc[p] = "idle"
    /\ prog' = IF ip[p] < Len(prog) THEN prog ELSE Append(prog, c)
    /\ ip' = [ip EXCEPT ![p] = @ + 1]
    /\ Apply(p, c, 0, o, inbox)

\* Party p, inside a call of kind op, gets the answers of the recvs it
\* waits on and runs the next stage, whose outcome at ev[p] is o.
ResumeCall(p, op, o) ==
    /\ pc[p] = "waiting"
    /\ frame[p].call.op = op
    /\ Received(p).ok
    /\ Apply(p, frame[p].call, frame[p].stage + 1, o,
             [inbox EXCEPT ![p] = Received(p).boxes])
    /\ UNCHANGED <<prog, ip>>

\* The handles the gate calls of party p have returned so far.
ReturnedHandles(p) ==
    UNION {Range(returned[p][i].handles) : i \in DOMAIN returned[p]}

\* The handles a caller at party p passes to a gate: those its calls have
\* returned, and the handles of h.strays, which no call has returned.
ArgHandles(p, h) == ReturnedHandles(p) \cup h.strays

\* Sequences over S of length at most k.
SeqUpTo(S, k) == UNION {[1 .. m -> S] : m \in 0 .. k}

Call(op, xs, ys, k) == [NoCall EXCEPT !.op = op, !.xs = xs, !.ys = ys, !.k = k]

\* ---------------------------------------------------------------- actions
\* One action per operation of the Evaluator.  A gate that reconstructs is
\* started by one step and resumed, after each await, by further steps of
\* the same action.
New(p, h) ==
    /\ pc[p] = "start"
    /\ Turn(p, h)
    /\ ev' = [ev EXCEPT ![p] = new(p, n, seeded_rng, thread_rng[p], shamir_rng)]
    /\ pc' = [pc EXCEPT ![p] = "idle"]
    /\ UNCHANGED <<n, seeded_rng, shamir_rng, thread_rng, frame, inbox, prog,
                   ip, returned>>

Ran(p, h) ==
    /\ Turn(p, h)
    /\ \E c \in NextCalls(p, h, "ran", {Call("ran", <<>>, <<>>, 0)}) :
          StartCall(p, c, Local(ran(ev[p])))

Add(p, h) ==
    /\ Turn(p, h)
    /\ \E c \in NextCalls(p, h, "add",
                  {Call("add", <<x>>, <<y>>, 0) :
                      x \in ArgHandles(p, h), y \in ArgHandles(p, h)}) :
          StartCall(p, c, Local(add(ev[p], c.xs[1], c.ys[1])))

Sub(p, h) ==
    /\ Turn(p, h)
    /\ \E c \in NextCalls(p, h, "sub",
                  {Call("sub", <<x>>, <<y>>, 0) :
                      x \in ArgHandles(p, h), y \in ArgHandles(p, h)}) :
          StartCall(p, c, Local(sub(ev[p], c.xs[1], c.ys[1])))

Scale(p, h) ==
    /\ Turn(p, h)
    /\ \E c \in NextCalls(p, h, "scale",
                  {Call("scale", <<x>>, <<>>, k) :
                      x \in ArgHandles(p, h), k \in h.scalars}) :
          StartCall(p, c, Local(scale(ev[p], c.xs[1], c.k)))

ClearAdd(p, h) ==
    /\ Turn(p, h)
    /\ \E c \in NextCalls(p, h, "clear_add",
                  {Call("clear_add", <<x>>, <<>>, k) :
                      x \in ArgHandles(p, h), k \in h.scalars}) :
          StartCall(p, c, Local(clear_add(ev[p], c.xs[1], c.k)))

FixedWireHandle(p, h) ==
    /\ Turn(p, h)
    /\ \E c \in NextCalls(p, h, "fixed_wire_handle",
                  {Call("fixed_wire_handle", <<>>, <<>>, k) : k \in h.scalars}) :
          StartCall(p, c, Local(fixed_wire_handle(ev[p], c.k)))

\* The share polynomials the caller hands the parties for one call: for a
\* seed sc and a number len of coefficients, party q gets the next len draws
\* of sc (the constant polynomial Draw(sc, q - 1) when len is 1).
PolyProfiles(input_seeds, lens) ==
    {[q \in 1 .. n |->
        [j \in 1 .. len |-> Draw(sc, (q - 1) * len + (j - 1))]] :
        sc \in input_seeds, len \in lens}

SharePolyEval(p, h) ==
    /\ Turn(p, h)
    /\ \E c \in NextCalls(p, h, "share_poly_eval",
                  {[NoCall EXCEPT !.op = "share_poly_eval", !.k = x, !.polys = f] :
                      f \in PolyProfiles(h.inputs, h.lens), x \in h.points}) :
          StartCall(p, c, Local(share_poly_eval(ev[p], c.polys[p], c.k)))

\* The share polynomials as DensePolynomial values.
DenseProfiles(input_seeds, lens) ==
    {[q \in 1 .. n |-> from_coefficients_vec(f[q])] :
        f \in PolyProfiles(input_seeds, lens)}

\* What an evaluation proof call returns: its G1 values, or the panic.
ProofOutcome(e, r, proofs) ==
    IF e.panicked THEN Blocked(e, <<>>, <<>>, EmptyLoc)
    ELSE IF ~r.ok THEN Blocked(Panic(e), <<>>, <<>>, EmptyLoc)
    ELSE Returned(e, <<>>, proofs)

EvalProofWithSharePoly(p, h) ==
    /\ Turn(p, h)
    /\ \E c \in NextCalls(p, h, "eval_proof_with_share_poly",
                  {[NoCall EXCEPT !.op = "eval_proof_with_share_poly",
                                  !.pp = pp, !.polys = f, !.k = z] :
                      pp \in h.pps, f \in DenseProfiles(h.inputs, h.lens),
                      z \in h.points}) :
          StartCall(p, c,
             With(eval_proof_with_share_poly(c.pp, c.polys[p], c.k),
                  LAMBDA r : ProofOutcome(ev[p], r, <<r.proof>>)))

\* The lists of share polynomials and of points of a batched call: m
\* polynomials at each party and m + d points.
ProofBatches(h) ==
    {[NoCall EXCEPT !.op = "batch_eval_proof_with_share_poly", !.pp = pp,
                    !.polys = [q \in 1 .. n |->
                                  [i \in DOMAIN fs |-> fs[i][q]]],
                    !.z_s = z_s] :
        pp \in h.pps,
        fs \in SeqUpTo(DenseProfiles(h.inputs, h.lens), MaxBatch),
        z_s \in SeqUpTo(h.points, MaxBatch + 1)}

BatchEvalProofWithSharePoly(p, h) ==
    /\ Turn(p, h)
    /\ \E c \in NextCalls(p, h, "batch_eval_proof_with_share_poly",
                  {b \in ProofBatches(h) :
                      (Len(b.z_s) - Len(b.polys[1])) \in h.skews}) :
          StartCall(p, c,
             With(batch_eval_proof_with_share_poly(c.pp, c.polys[p], c.z_s),
                  LAMBDA r : ProofOutcome(ev[p], r, r.proofs)))

\* A party's process calls utils::multiplicative_subgroup_of_size(nn): the
\* assertion of requires_power_of_2 or the unwrap of the domain ends it, or
\* it gets the generator.
MultiplicativeSubgroupOfSize(p, h) ==
    /\ Turn(p, h)
    /\ \E c \in NextCalls(p, h, "multiplicative_subgroup_of_size",
                  {[NoCall EXCEPT !.op = "multiplicative_subgroup_of_size",
                                  !.k = nn] : nn \in h.sizes}) :
          StartCall(p, c,
             IF ev[p].panicked THEN Blocked(ev[p], <<>>, <<>>, EmptyLoc)
             ELSE IF ~IsPowerOf2(c.k)
             THEN Blocked(Panic(ev[p]), <<>>, <<>>, EmptyLoc)
             ELSE IF ~Radix2EvaluationDomain(c.k).ok
             THEN Blocked(Panic(ev[p]), <<>>, <<>>, EmptyLoc)
             ELSE Returned(ev[p], <<>>,
                           <<multiplicative_subgroup_of_size(c.k)>>))

Beaver(p, h) ==
    /\ Turn(p, h)
    /\ \E c \in NextCalls(p, h, "beaver", {Call("beaver", <<>>, <<>>, 0)}) :
          StartCall(p, c,
             With(beaver(ev[p]), LAMBDA r :
                Returned(r.e, IF r.e.panicked THEN <<>> ELSE r.h, <<>>)))

BatchBeaver(p, h) ==
    /\ Turn(p, h)
    /\ \E c \in NextCalls(p, h, "batch_beaver",
                  {Call("batch_beaver", <<>>, <<>>, k) : k \in 0 .. MaxBatch}) :
          StartCall(p, c,
             With(batch_beaver(ev[p], c.k), LAMBDA r :
                Returned(r.e, FlattenTriples(r.h), <<>>)))

Mult(p, h) ==
    /\ Turn(p, h)
    /\ \/ \E c \in NextCalls(p, h, "mult",
                  {Call("mult", <<x>>, <<y>>, 0) :
                      x \in ArgHandles(p, h), y \in ArgHandles(p, h)}) :
             StartCall(p, c,
                MultStage(ev[p], c.xs[1], c.ys[1], 0, EmptyLoc, <<>>))
       \/ ResumeCall(p, "mult",
             MultStage(ev[p], frame[p].call.xs[1], frame[p].call.ys[1],
                       frame[p].stage + 1, frame[p].loc, Received(p).received))

BatchMult(p, h) ==
    /\ Turn(p, h)
    /\ \/ \E c \in NextCalls(p, h, "batch_mult",
                  {Call("batch_mult", xs, ys, 0) :
                      xs \in SeqUpTo(ArgHandles(p, h), MaxBatch),
                      ys \in SeqUpTo(ArgHandles(p, h), MaxBatch)}) :
             StartCall(p, c,
                BatchMultStage(ev[p], c.xs, c.ys, 0, EmptyLoc, <<>>))
       \/ ResumeCall(p, "batch_mult",
             BatchMultStage(ev[p], frame[p].call.xs, frame[p].call.ys,
                            frame[p].stage + 1, frame[p].loc,
                            Received(p).received))

BatchInv(p, h) ==
    /\ Turn(p, h)
    /\ \/ \E c \in NextCalls(p, h, "batch_inv",
                  {Call("batch_inv", xs, <<>>, 0) :
                      xs \in SeqUpTo(ArgHandles(p, h), MaxBatch)}) :
             StartCall(p, c, BatchInvStage(ev[p], c.xs, 0, EmptyLoc, <<>>))
       \/ ResumeCall(p, "batch_inv",
             BatchInvStage(ev[p], frame[p].call.xs, frame[p].stage + 1,
                           frame[p].loc, Received(p).received))

BatchExp(p, h) ==
    /\ Turn(p, h)
    /\ \/ \E c \in NextCalls(p, h, "batch_exp",
                  {Call("batch_exp", xs, <<>>, 0) :
                      xs \in SeqUpTo(ArgHandles(p, h), MaxBatch)}) :
             StartCall(p, c, BatchExpStage(ev[p], c.xs, 0, EmptyLoc, <<>>))
       \/ ResumeCall(p, "batch_exp",
             BatchExpStage(ev[p], frame[p].call.xs, frame[p].stage + 1,
                           frame[p].loc, Received(p).received))

BatchRan64(p, h) ==
    /\ Turn(p, h)
    /\ \/ \E c \in NextCalls(p, h, "batch_ran_64",
                  {Call("batch_ran_64", <<>>, <<>>, k) : k \in 0 .. MaxBatch}) :
             StartCall(p, c, BatchRan64Stage(ev[p], c.k, 0, EmptyLoc, <<>>))
       \/ ResumeCall(p, "batch_ran_64",
             BatchRan64Stage(ev[p], frame[p].call.k, frame[p].stage + 1,
                             frame[p].loc, Received(p).received))

OutputWire(p, h) ==
    /\ Turn(p, h)
    /\ \/ \E c \in NextCalls(p, h, "output_wire",
                  {Call("output_wire", <<x>>, <<>>, 0) :
                      x \in ArgHandles(p, h)}) :
             StartCall(p, c, OutputWireStage(ev[p], c.xs[1], 0, EmptyLoc, <<>>))
       \/ ResumeCall(p, "output_wire",
             OutputWireStage(ev[p], frame[p].call.xs[1], frame[p].stage + 1,
                             frame[p].loc, Received(p).received))

\* The long handle lists of a harness: for a length of h.longs, two
\* returned handles in turn.
LongHandleLists(p, h) ==
    {[i \in 1 .. len |-> IF i % 2 = 1 THEN a ELSE b] :
        len \in h.longs, a \in ArgHandles(p, h), b \in ArgHandles(p, h)}

BatchOutputWire(p, h) ==
    /\ Turn(p, h)
    /\ \/ \E c \in NextCalls(p, h, "batch_output_wire",
                  {Call("batch_output_wire", xs, <<>>, 0) :
                      xs \in SeqUpTo(ArgHandles(p, h), MaxBatch)
                              \cup LongHandleLists(p, h)}) :
             StartCall(p, c,
                BatchOutputWireStage(ev[p], c.xs, 0, EmptyLoc, <<>>))
       \/ ResumeCall(p, "batch_output_wire",
             BatchOutputWireStage(ev[p], frame[p].call.xs, frame[p].stage + 1,
                                  frame[p].loc, Received(p).received))

DistIbeEncrypt(p, h) ==
    /\ Turn(p, h)
    /\ \/ \E c \in NextCalls(p, h, "dist_ibe_encrypt",
                  {[NoCall EXCEPT !.op = "dist_ibe_encrypt", !.xs = <<x>>,
                                  !.ys = <<y>>, !.pk = pk, !.ids = <<id>>] :
                      x \in ArgHandles(p, h), y \in ArgHandles(p, h),
                      pk \in h.pks, id \in h.ids}) :
             StartCall(p, c,
                DistIbeEncryptStage(ev[p], c.xs[1], c.ys[1], c.pk, c.ids[1], 0,
                                    EmptyLoc, <<>>))
       \/ ResumeCall(p, "dist_ibe_encrypt",
             DistIbeEncryptStage(ev[p], frame[p].call.xs[1],
                                 frame[p].call.ys[1], frame[p].call.pk,
                                 frame[p].call.ids[1], frame[p].stage + 1,
                                 frame[p].loc, Received(p).received))

\* exp_and_reveal_gt(bases, exponent_handles, func_name), the name in ys.
ExpAndRevealGt(p, h) ==
    /\ Turn(p, h)
    /\ \/ \E c \in NextCalls(p, h, "exp_and_reveal_gt",
                  {[NoCall EXCEPT !.op = "exp_and_reveal_gt", !.bases = bs,
                                  !.xs = xs, !.ys = <<name>>] :
                      bs \in SeqUpTo(h.bases, MaxBatch),
                      xs \in SeqUpTo(ArgHandles(p, h), MaxBatch),
                      name \in h.names}) :
             StartCall(p, c,
                ExpAndRevealGtStage(ev[p], c.bases, c.xs, c.ys[1], 0,
                                    EmptyLoc, <<>>))
       \/ ResumeCall(p, "exp_and_reveal_gt",
             ExpAndRevealGtStage(ev[p], frame[p].call.bases, frame[p].call.xs,
                                 frame[p].call.ys[1], frame[p].stage + 1,
                                 frame[p].loc, Received(p).received))

BatchDistIbeEncrypt(p, h) ==
    /\ Turn(p, h)
    /\ \/ \E c \in NextCalls(p, h, "batch_dist_ibe_encrypt_with_common_mask",
                  {[NoCall EXCEPT
                        !.op = "batch_dist_ibe_encrypt_with_common_mask",
                        !.xs = xs, !.ys = <<y>>, !.pk = pk, !.ids = ids] :
                      xs \in SeqUpTo(ArgHandles(p, h), MaxBatch),
                      y \in ArgHandles(p, h), pk \in h.pks,
                      ids \in SeqUpTo(h.ids, MaxBatch)}) :
             StartCall(p, c,
                BatchDistIbeEncryptStage(ev[p], c.xs, c.ys[1], c.pk, c.ids, 0,
                                         EmptyLoc, <<>>))
       \/ ResumeCall(p, "batch_dist_ibe_encrypt_with_common_mask",
             BatchDistIbeEncryptStage(ev[p], frame[p].call.xs,
                                      frame[p].call.ys[1], frame[p].call.pk,
                                      frame[p].call.ids, frame[p].stage + 1,
                                      frame[p].loc, Received(p).received))

\* The aligned arguments a harness hands the parties for a direct call of
\* a batched sum in a group: len + d identifiers (the labels of 1, 2, ...)
\* for len in 0 .. MaxBatch or h.longs and d in h.skews, and per party q
\* the len elements with the logs Draw(sc, q + i).
GroupBatchCalls(h, op, grp) ==
    {[NoCall EXCEPT !.op = op,
                    !.xs = [i \in 1 .. (len + d) |-> WireLabel(i)],
                    !.polys = [q \in 1 .. n |->
                                 [i \in 1 .. len |-> <<grp, Draw(sc, q + i)>>]]] :
        len \in (0 .. MaxBatch) \cup h.longs, d \in h.skews, sc \in h.inputs}

BatchAddG1ElementsFromAllParties(p, h) ==
    /\ Turn(p, h)
    /\ \/ \E c \in NextCalls(p, h, "batch_add_g1_elements_from_all_parties",
                  GroupBatchCalls(h, "batch_add_g1_elements_from_all_parties",
                                  "G1")) :
             StartCall(p, c,
                BatchAddG1Stage(ev[p], c.polys[p], c.xs, 0, EmptyLoc, <<>>))
       \/ ResumeCall(p, "batch_add_g1_elements_from_all_parties",
             BatchAddG1Stage(ev[p], frame[p].call.polys[p], frame[p].call.xs,
                             frame[p].stage + 1, frame[p].loc,
                             Received(p).received))

BatchAddGtElementsFromAllParties(p, h) ==
    /\ Turn(p, h)
    /\ \/ \E c \in NextCalls(p, h, "batch_add_gt_elements_from_all_parties",
                  GroupBatchCalls(h, "batch_add_gt_elements_from_all_parties",
                                  "Gt")) :
             StartCall(p, c,
                BatchAddGtStage(ev[p], c.polys[p], c.xs, 0, EmptyLoc, <<>>))
       \/ ResumeCall(p, "batch_add_gt_elements_from_all_parties",
             BatchAddGtStage(ev[p], frame[p].call.polys[p], frame[p].call.xs,
                             frame[p].stage + 1, frame[p].loc,
                             Received(p).received))

\* The arguments a harness hands the parties for a direct call of a sum in
\* a group: an identifier of h.names and per party q the element with the
\* log Draw(sc, q + 1).
GroupCalls(h, op, grp) ==
    {[NoCall EXCEPT !.op = op, !.ys = <<name>>,
                    !.polys = [q \in 1 .. n |-> << <<grp, Draw(sc, q + 1)>> >>]] :
        name \in h.names, sc \in h.inputs}

AddG1ElementsFromAllParties(p, h) ==
    /\ Turn(p, h)
    /\ \/ \E c \in NextCalls(p, h, "add_g1_elements_from_all_parties",
                  GroupCalls(h, "add_g1_elements_from_all_parties", "G1")) :
             StartCall(p, c,
                AddElementsStage(ev[p], "G1", c.polys[p][1], c.ys[1], 0,
                                 EmptyLoc, <<>>))
       \/ ResumeCall(p, "add_g1_elements_from_all_parties",
             AddElementsStage(ev[p], "G1", frame[p].call.polys[p][1],
                              frame[p].call.ys[1], frame[p].stage + 1,
                              frame[p].loc, Received(p).received))

AddG2ElementsFromAllParties(p, h) ==
    /\ Turn(p, h)
    /\ \/ \E c \in NextCalls(p, h, "add_g2_elements_from_all_parties",
                  GroupCalls(h, "add_g2_elements_from_all_parties", "G2")) :
             StartCall(p, c,
                AddElementsStage(ev[p], "G2", c.polys[p][1], c.ys[1], 0,
                                 EmptyLoc, <<>>))
       \/ ResumeCall(p, "add_g2_elements_from_all_parties",
             AddElementsStage(ev[p], "G2", frame[p].call.polys[p][1],
                              frame[p].call.ys[1], frame[p].stage + 1,
                              frame[p].loc, Received(p).received))

AddGtElementsFromAllParties(p, h) ==
    /\ Turn(p, h)
    /\ \/ \E c \in NextCalls(p, h, "add_gt_elements_from_all_parties",
                  GroupCalls(h, "add_gt_elements_from_all_parties", "Gt")) :
             StartCall(p, c,
                AddElementsStage(ev[p], "Gt", c.polys[p][1], c.ys[1], 0,
                                 EmptyLoc, <<>>))
       \/ ResumeCall(p, "add_gt_elements_from_all_parties",
             AddElementsStage(ev[p], "Gt", frame[p].call.polys[p][1],
                              frame[p].call.ys[1], frame[p].stage + 1,
                              frame[p].loc, Received(p).received))

BatchOutputWireInExponent(p, h) ==
    /\ Turn(p, h)
    /\ \/ \E c \in NextCalls(p, h, "batch_output_wire_in_exponent",
                  {Call("batch_output_wire_in_exponent", xs, <<>>, 0) :
                      xs \in SeqUpTo(ArgHandles(p, h), MaxBatch)}) :
             StartCall(p, c,
                BatchOutputWireInExponentStage(ev[p], c.xs, 0, EmptyLoc, <<>>))
       \/ ResumeCall(p, "batch_output_wire_in_exponent",
             BatchOutputWireInExponentStage(ev[p], frame[p].call.xs,
                                            frame[p].stage + 1, frame[p].loc,
                                            Received(p).received))

\* The calls of exp_and_reveal_g1 / _g2 a harness offers in group grp: the
\* bases of h.bases taken in grp, exponent handles and an identifier.
ExpAndRevealCalls(p, h, op, grp) ==
    {[NoCall EXCEPT !.op = op, !.bases = bs, !.xs = xs, !.ys = <<name>>] :
        bs \in SeqUpTo({<<grp, b[2]>> : b \in h.bases}, MaxBatch),
        xs \in SeqUpTo(ArgHandles(p, h), MaxBatch),
        name \in h.names}

ExpAndRevealG1(p, h) ==
    /\ Turn(p, h)
    /\ \/ \E c \in NextCalls(p, h, "exp_and_reveal_g1",
                  ExpAndRevealCalls(p, h, "exp_and_reveal_g1", "G1")) :
             StartCall(p, c,
                ExpAndRevealG1Stage(ev[p], c.bases, c.xs, c.ys[1], 0,
                                    EmptyLoc, <<>>))
       \/ ResumeCall(p, "exp_and_reveal_g1",
             ExpAndRevealG1Stage(ev[p], frame[p].call.bases, frame[p].call.xs,
                                 frame[p].call.ys[1], frame[p].stage + 1,
                                 frame[p].loc, Received(p).received))

ExpAndRevealG2(p, h) ==
    /\ Turn(p, h)
    /\ \/ \E c \in NextCalls(p, h, "exp_and_reveal_g2",
                  ExpAndRevealCalls(p, h, "exp_and_reveal_g2", "G2")) :
             StartCall(p, c,
                ExpAndRevealG2Stage(ev[p], c.bases, c.xs, c.ys[1], 0,
                                    EmptyLoc, <<>>))
       \/ ResumeCall(p, "exp_and_reveal_g2",
             ExpAndRevealG2Stage(ev[p], frame[p].call.bases, frame[p].call.xs,
                                 frame[p].call.ys[1], frame[p].stage + 1,
                                 frame[p].loc, Received(p).received))

SharePolyMult(p, h) ==
    /\ Turn(p, h)
    /\ \/ \E c \in NextCalls(p, h, "share_poly_mult",
                  {[NoCall EXCEPT !.op = "share_poly_mult", !.polys = f,
                                  !.polys_g = g] :
                      f \in PolyProfiles(h.inputs, h.lens),
                      g \in PolyProfiles(h.inputs, h.lens)}) :
             StartCall(p, c,
                SharePolyMultStage(ev[p], c.polys[p], c.polys_g[p], 0,
                                   EmptyLoc, <<>>))
       \/ ResumeCall(p, "share_poly_mult",
             SharePolyMultStage(ev[p], frame[p].call.polys[p],
                                frame[p].call.polys_g[p], frame[p].stage + 1,
                                frame[p].loc, Received(p).received))

\* ---------------------------------------------------------- specifications
\* Seeds of the generators the runs are started with.
SomeSeeds == {<<1, 2>>, <<3, 0>>}

\* Seeds of the callers' private inputs.
SomeInputs == {<<0, 1>>, <<2, 3>>}

\* Spec: every gate of the evaluator, the parties in lockstep.
FullHarness ==
    [lockstep |-> TRUE, calls |-> MaxCalls, scalars |-> {0, 3},
     points |-> {1}, inputs |-> SomeInputs,
     strays |-> {}, longs |-> {}, skews |-> {0}, lens |-> {1}]

Init == InitWith(2 .. MaxN, SomeSeeds, {<<1, 1>>, <<2, 1>>}, {<<4, 3>>})

Next ==
    \/ \E p \in Parties : New(p, FullHarness)
    \/ \E p \in Parties : Ran(p, FullHarness)
    \/ \E p \in Parties : Add(p, FullHarness)
    \/ \E p \in Parties : Sub(p, FullHarness)
    \/ \E p \in Parties : Scale(p, FullHarness)
    \/ \E p \in Parties : ClearAdd(p, FullHarness)
    \/ \E p \in Parties : FixedWireHandle(p, FullHarness)
    \/ \E p \in Parties : SharePolyEval(p, FullHarness)
    \/ \E p \in Parties : Beaver(p, FullHarness)
    \/ \E p \in Parties : BatchBeaver(p, FullHarness)
    \/ \E p \in Parties : Mult(p, FullHarness)
    \/ \E p \in Parties : BatchMult(p, FullHarness)
    \/ \E p \in Parties : BatchInv(p, FullHarness)
    \/ \E p \in Parties : BatchExp(p, FullHarness)
    \/ \E p \in Parties : BatchRan64(p, FullHarness)
    \/ \E p \in Parties : OutputWire(p, FullHarness)
    \/ \E p \in Parties : BatchOutputWire(p, FullHarness)

Spec == Init /\ [][Next]_vars

\* SpecPre: Evaluator::new alone, for every seed of the seeded generator
\* and several seeds of the parties' own generators.
PreHarness ==
    [lockstep |-> FALSE, calls |-> 0, scalars |-> {}, points |-> {},
     inputs |-> {},
     strays |-> {}, longs |-> {}, skews |-> {0}, lens |-> {1}]

LocalSeeds == {<<4, 3>>, <<1, 1>>, <<0, 2>>}

InitPre == InitWith(2 .. MaxN, F \X F, {<<2, 1>>}, LocalSeeds)

NextPre == \E p \in Parties : New(p, PreHarness)

SpecPre == InitPre /\ [][NextPre]_vars

\* Inputs of the reduced menus: seeds whose shares open to zero and to
\* non-zero values, and one whose shares are all equal.
WideInputs == {<<0, 1>>, <<2, 3>>, <<1, 1>>, <<2, 0>>}

\* SpecMul: inputs, mult and batch_mult.
MulHarness ==
    [lockstep |-> TRUE, calls |-> MaxCalls + 1, scalars |-> {},
     points |-> {1}, inputs |-> WideInputs,
     strays |-> {}, longs |-> {}, skews |-> {0}, lens |-> {1}]

NextMul ==
    \/ \E p \in Parties : New(p, MulHarness)
    \/ \E p \in Parties : SharePolyEval(p, MulHarness)
    \/ \E p \in Parties : Mult(p, MulHarness)
    \/ \E p \in Parties : BatchMult(p, MulHarness)

SpecMul == Init /\ [][NextMul]_vars

\* SpecOpen: inputs and the two reconstructions, the parties running freely.
OpenHarness ==
    [lockstep |-> FALSE, calls |-> MaxCalls, scalars |-> {},
     points |-> {1}, inputs |-> WideInputs,
     strays |-> {}, longs |-> {}, skews |-> {0}, lens |-> {1}]

NextOpen ==
    \/ \E p \in Parties : New(p, OpenHarness)
    \/ \E p \in Parties : SharePolyEval(p, OpenHarness)
    \/ \E p \in Parties : OutputWire(p, OpenHarness)
    \/ \E p \in Parties : BatchOutputWire(p, OpenHarness)

SpecOpen == Init /\ [][NextOpen]_vars

\* SpecInv: inputs and batch_inv, for several seeds of the generator of the
\* random sharings.
InvHarness ==
    [lockstep |-> TRUE, calls |-> MaxCalls + 1, scalars |-> {},
     points |-> {1}, inputs |-> WideInputs,
     strays |-> {}, longs |-> {}, skews |-> {0}, lens |-> {1}]

ShamirSeeds == {<<1, 1>>, <<2, 1>>, <<0, 0>>, <<4, 1>>}

InitInv == InitWith(2 .. MaxN, SomeSeeds, ShamirSeeds, {<<4, 3>>})

NextInv ==
    \/ \E p \in Parties : New(p, InvHarness)
    \/ \E p \in Parties : SharePolyEval(p, InvHarness)
    \/ \E p \in Parties : BatchInv(p, InvHarness)

SpecInv == InitInv /\ [][NextInv]_vars

\* SpecLin: inputs and the linear gates, every scalar.
LinHarness ==
    [lockstep |-> TRUE, calls |-> MaxCalls + 1, scalars |-> F,
     points |-> {1}, inputs |-> WideInputs,
     strays |-> {}, longs |-> {}, skews |-> {0}, lens |-> {1}]

NextLin ==
    \/ \E p \in Parties : New(p, LinHarness)
    \/ \E p \in Parties : SharePolyEval(p, LinHarness)
    \/ \E p \in Parties : Add(p, LinHarness)
    \/ \E p \in Parties : Sub(p, LinHarness)
    \/ \E p \in Parties : Scale(p, LinHarness)

SpecLin == Init /\ [][NextLin]_vars

\* SpecCtr: the gates that only consume preprocessing, in runs long enough
\* to use it up.
CtrHarness ==
    [lockstep |-> TRUE, calls |-> MaxCalls + 2, scalars |-> {},
     points |-> {}, inputs |-> {},
     strays |-> {}, longs |-> {}, skews |-> {0}, lens |-> {1}]

NextCtr ==
    \/ \E p \in Parties : New(p, CtrHarness)
    \/ \E p \in Parties : Ran(p, CtrHarness)
    \/ \E p \in Parties : Beaver(p, CtrHarness)
    \/ \E p \in Parties : BatchBeaver(p, CtrHarness)

SpecCtr == Init /\ [][NextCtr]_vars

\* SpecConst: inputs and the gates that bring in a public value, every
\* scalar.
NextConst ==
    \/ \E p \in Parties : New(p, LinHarness)
    \/ \E p \in Parties : SharePolyEval(p, LinHarness)
    \/ \E p \in Parties : FixedWireHandle(p, LinHarness)
    \/ \E p \in Parties : ClearAdd(p, LinHarness)

SpecConst == Init /\ [][NextConst]_vars

\* SpecExp: inputs and batch_exp.
NextExp ==
    \/ \E p \in Parties : New(p, MulHarness)
    \/ \E p \in Parties : SharePolyEval(p, MulHarness)
    \/ \E p \in Parties : BatchExp(p, MulHarness)

SpecExp == Init /\ [][NextExp]_vars

\* SpecIbe: inputs, random sharings and the two encryptions, for a master
\* key and two identities.
IbeHarness ==
    [lockstep |-> TRUE, calls |-> MaxCalls + 1, scalars |-> {},
     points |-> {1}, inputs |-> SomeInputs,
     strays |-> {}, longs |-> {}, skews |-> {0}, lens |-> {1},
     pks |-> {<<"G2", 3>>}, ids |-> {<<1>>, <<2>>}]

NextIbe ==
    \/ \E p \in Parties : New(p, IbeHarness)
    \/ \E p \in Parties : Ran(p, IbeHarness)
    \/ \E p \in Parties : SharePolyEval(p, IbeHarness)
    \/ \E p \in Parties : DistIbeEncrypt(p, IbeHarness)
    \/ \E p \in Parties : BatchDistIbeEncrypt(p, IbeHarness)

SpecIbe == Init /\ [][NextIbe]_vars

\* SpecPoly: share_poly_mult on share polynomials of up to PERM_SIZE
\* coefficients.
PolyHarness ==
    [lockstep |-> TRUE, calls |-> MaxCalls - 1, scalars |-> {},
     points |-> {}, inputs |-> WideInputs,
     strays |-> {}, longs |-> {}, skews |-> {0}, lens |-> 0 .. PERM_SIZE]

NextPoly ==
    \/ \E p \in Parties : New(p, PolyHarness)
    \/ \E p \in Parties : SharePolyMult(p, PolyHarness)

SpecPoly == Init /\ [][NextPoly]_vars

\* SpecEval: share_poly_eval on share polynomials of up to three
\* coefficients at several points of F.
EvalHarness ==
    [lockstep |-> TRUE, calls |-> MaxCalls, scalars |-> {},
     points |-> {0, 2, 3}, inputs |-> SomeInputs,
     strays |-> {}, longs |-> {}, skews |-> {0},
     lens |-> 0 .. (PERM_SIZE + 1)]

NextEval ==
    \/ \E p \in Parties : New(p, EvalHarness)
    \/ \E p \in Parties : SharePolyEval(p, EvalHarness)

SpecEval == Init /\ [][NextEval]_vars

\* SpecChunk: the batched reconstructions in F, G1 and Gt on lists around
\* one and two slices, after share_poly_eval has made the wires.
ChunkHarness ==
    [lockstep |-> TRUE, calls |-> MaxCalls, scalars |-> {},
     points |-> {1}, inputs |-> SomeInputs,
     strays |-> {},
     longs |-> {GT_CHUNK, GT_CHUNK + 1, 2 * GT_CHUNK, 2 * GT_CHUNK + 1,
                F_CHUNK, F_CHUNK + 1, 2 * F_CHUNK, 2 * F_CHUNK + 1},
     skews |-> {0}, lens |-> {1}]

NextChunk ==
    \/ \E p \in Parties : New(p, ChunkHarness)
    \/ \E p \in Parties : SharePolyEval(p, ChunkHarness)
    \/ \E p \in Parties : BatchOutputWire(p, ChunkHarness)
    \/ \E p \in Parties : BatchAddG1ElementsFromAllParties(p, ChunkHarness)
    \/ \E p \in Parties : BatchAddGtElementsFromAllParties(p, ChunkHarness)

SpecChunk == Init /\ [][NextChunk]_vars

\* SpecLen: the operations on aligned lists, the lists of equal and of
\* unequal lengths.
LenHarness ==
    [lockstep |-> TRUE, calls |-> MaxCalls, scalars |-> {},
     points |-> {1}, inputs |-> SomeInputs,
     strays |-> {}, longs |-> {}, skews |-> {0, 1}, lens |-> {1},
     pks |-> {<<"G2", 3>>}, ids |-> {<<1>>, <<2>>},
     bases |-> {<<"Gt", 1>>, <<"Gt", 2>>}, names |-> {IbeC2Tag}]

NextLen ==
    \/ \E p \in Parties : New(p, LenHarness)
    \/ \E p \in Parties : SharePolyEval(p, LenHarness)
    \/ \E p \in Parties : BatchMult(p, LenHarness)
    \/ \E p \in Parties : BatchAddGtElementsFromAllParties(p, LenHarness)
    \/ \E p \in Parties : ExpAndRevealGt(p, LenHarness)
    \/ \E p \in Parties : BatchDistIbeEncrypt(p, LenHarness)

SpecLen == Init /\ [][NextLen]_vars

\* SpecRan64: batch_ran_64, for several seeds of the generator of the
\* random sharings.
Ran64Harness ==
    [lockstep |-> TRUE, calls |-> MaxCalls, scalars |-> {},
     points |-> {}, inputs |-> {},
     strays |-> {}, longs |-> {}, skews |-> {0}, lens |-> {1}]

NextRan64 ==
    \/ \E p \in Parties : New(p, Ran64Harness)
    \/ \E p \in Parties : BatchRan64(p, Ran64Harness)

SpecRan64 == InitInv /\ [][NextRan64]_vars

\* SpecMiss: the gates that take handles, called with handles of the wire
\* table and with handles that are not in it (the label of 0, which is never
\* issued, and the label the next gate will issue).
MissHarness ==
    [lockstep |-> TRUE, calls |-> MaxCalls, scalars |-> {3},
     points |-> {1}, inputs |-> SomeInputs,
     strays |-> {WireLabel(0), WireLabel(2)}, longs |-> {}, skews |-> {0},
     lens |-> {1}]

NextMiss ==
    \/ \E p \in Parties : New(p, MissHarness)
    \/ \E p \in Parties : SharePolyEval(p, MissHarness)
    \/ \E p \in Parties : Add(p, MissHarness)
    \/ \E p \in Parties : Sub(p, MissHarness)
    \/ \E p \in Parties : Scale(p, MissHarness)
    \/ \E p \in Parties : ClearAdd(p, MissHarness)
    \/ \E p \in Parties : OutputWire(p, MissHarness)
    \/ \E p \in Parties : BatchOutputWire(p, MissHarness)
    \/ \E p \in Parties : Mult(p, MissHarness)
    \/ \E p \in Parties : BatchMult(p, MissHarness)
    \/ \E p \in Parties : BatchInv(p, MissHarness)
    \/ \E p \in Parties : BatchExp(p, MissHarness)

SpecMiss == Init /\ [][NextMiss]_vars

\* SpecLocal: the gates that do not reconstruct.
LocalHarness ==
    [lockstep |-> TRUE, calls |-> MaxCalls + 1, scalars |-> {0, 3},
     points |-> {1}, inputs |-> SomeInputs,
     strays |-> {}, longs |-> {}, skews |-> {0}, lens |-> {1}]

NextLocal ==
    \/ \E p \in Parties : New(p, LocalHarness)
    \/ \E p \in Parties : Ran(p, LocalHarness)
    \/ \E p \in Parties : Add(p, LocalHarness)
    \/ \E p \in Parties : Sub(p, LocalHarness)
    \/ \E p \in Parties : Scale(p, LocalHarness)
    \/ \E p \in Parties : ClearAdd(p, LocalHarness)
    \/ \E p \in Parties : FixedWireHandle(p, LocalHarness)
    \/ \E p \in Parties : SharePolyEval(p, LocalHarness)

SpecLocal == Init /\ [][NextLocal]_vars

\* SpecRounds: inputs and the two composite gates batch_exp and
\* share_poly_mult.
RoundsHarness ==
    [lockstep |-> TRUE, calls |-> MaxCalls, scalars |-> {},
     points |-> {1}, inputs |-> SomeInputs,
     strays |-> {}, longs |-> {}, skews |-> {0}, lens |-> 1 .. PERM_SIZE]

NextRounds ==
    \/ \E p \in Parties : New(p, RoundsHarness)
    \/ \E p \in Parties : SharePolyEval(p, RoundsHarness)
    \/ \E p \in Parties : BatchExp(p, RoundsHarness)
    \/ \E p \in Parties : SharePolyMult(p, RoundsHarness)

SpecRounds == Init /\ [][NextRounds]_vars

\* SpecKzg: the evaluation proofs of share polynomials, one at a time and
\* batched, under parameters of two setups; the list of points is as long
\* as the list of polynomials, one shorter or one longer.
KzgHarness ==
    [lockstep |-> TRUE, calls |-> MaxCalls - 1, scalars |-> {},
     points |-> {0, 2, 3}, inputs |-> SomeInputs,
     strays |-> {}, longs |-> {}, skews |-> {-1, 0, 1},
     lens |-> 0 .. (PERM_SIZE + 1),
     pps |-> {UniversalParams(tau, PERM_SIZE) : tau \in {2, 3}}]

NextKzg ==
    \/ \E p \in Parties : New(p, KzgHarness)
    \/ \E p \in Parties : EvalProofWithSharePoly(p, KzgHarness)
    \/ \E p \in Parties : BatchEvalProofWithSharePoly(p, KzgHarness)

SpecKzg == Init /\ [][NextKzg]_vars

\* SpecSub: calls of multiplicative_subgroup_of_size with sizes from 0 to
\* past twice the largest power of two that divides |F| - 1.
MaxSize == 2 * (2 ^ TWO_ADICITY) + 1

SubHarness ==
    [lockstep |-> TRUE, calls |-> MaxCalls, scalars |-> {},
     points |-> {}, inputs |-> {},
     strays |-> {}, longs |-> {}, skews |-> {0},
     lens |-> {}, sizes |-> 0 .. MaxSize]

NextSub ==
    \/ \E p \in Parties : New(p, SubHarness)
    \/ \E p \in Parties : MultiplicativeSubgroupOfSize(p, SubHarness)

SpecSub == Init /\ [][NextSub]_vars

\* SpecWires: gates that write the wire table in every way the evaluator
\* does: a sharing, an input, a sum, a product with its triple after its
\* reconstructions, and the wire of 1 the batched encryption makes.
WiresHarness ==
    [lockstep |-> TRUE, calls |-> MaxCalls + 1, scalars |-> {},
     points |-> {1}, inputs |-> {<<2, 3>>},
     strays |-> {}, longs |-> {}, skews |-> {0}, lens |-> {1},
     pks |-> {<<"G2", 3>>}, ids |-> {<<1>>}]

NextWires ==
    \/ \E p \in Parties : New(p, WiresHarness)
    \/ \E p \in Parties : Ran(p, WiresHarness)
    \/ \E p \in Parties : SharePolyEval(p, WiresHarness)
    \/ \E p \in Parties : Add(p, WiresHarness)
    \/ \E p \in Parties : Mult(p, WiresHarness)
    \/ \E p \in Parties : BatchDistIbeEncrypt(p, WiresHarness)

SpecWires == Init /\ [][NextWires]_vars

\* SpecUse: the gates that take preprocessed material directly and the
\* multiplication that takes it through beaver, in runs of three calls.
UseHarness ==
    [lockstep |-> TRUE, calls |-> MaxCalls + 1, scalars |-> {},
     points |-> {}, inputs |-> {},
     strays |-> {}, longs |-> {}, skews |-> {0}, lens |-> {1}]

NextUse ==
    \/ \E p \in Parties : New(p, UseHarness)
    \/ \E p \in Parties : Ran(p, UseHarness)
    \/ \E p \in Parties : Beaver(p, UseHarness)
    \/ \E p \in Parties : BatchBeaver(p, UseHarness)
    \/ \E p \in Parties : Mult(p, UseHarness)

SpecUse == Init /\ [][NextUse]_vars

\* SpecIds: the composite gates one after another, on inputs made by
\* share_poly_eval, the parties running at their own speeds: a fast party
\* may be a whole call ahead of a slow one, whose inbox then holds every
\* message of the fast one.
IdsHarness ==
    [lockstep |-> FALSE, calls |-> MaxCalls + 1, scalars |-> {},
     points |-> {1}, inputs |-> {<<2, 3>>},
     strays |-> {}, longs |-> {}, skews |-> {0}, lens |-> {1}]

InitIds == InitWith(2 .. MaxN, {<<1, 2>>}, {<<2, 1>>}, {<<4, 3>>})

NextIds ==
    \/ \E p \in Parties : New(p, IdsHarness)
    \/ \E p \in Parties : SharePolyEval(p, IdsHarness)
    \/ \E p \in Parties : Mult(p, IdsHarness)
    \/ \E p \in Parties : BatchMult(p, IdsHarness)
    \/ \E p \in Parties : BatchInv(p, IdsHarness)
    \/ \E p \in Parties : BatchExp(p, IdsHarness)
    \/ \E p \in Parties : BatchRan64(p, IdsHarness)
    \/ \E p \in Parties : SharePolyMult(p, IdsHarness)

SpecIds == InitIds /\ [][NextIds]_vars

\* SpecLive: inputs and the two reconstructions in runs of three calls, the
\* parties running freely and each of them fairly: a party is a process of
\* its own, which takes the step it can take (build its evaluator, start the
\* circuit's next gate, go on once its recvs are answered) sooner or later.
LiveHarness ==
    [lockstep |-> FALSE, calls |-> MaxCalls + 1, scalars |-> {},
     points |-> {1}, inputs |-> {<<2, 3>>},
     strays |-> {}, longs |-> {}, skews |-> {0}, lens |-> {1}]

NextLive ==
    \/ \E p \in Parties : New(p, LiveHarness)
    \/ \E p \in Parties : SharePolyEval(p, LiveHarness)
    \/ \E p \in Parties : OutputWire(p, LiveHarness)
    \/ \E p \in Parties : BatchOutputWire(p, LiveHarness)

\* Party p moves: it can take a step (Runnable is what enables its step)
\* and its position changes, from "start" to "idle" in New, by one more
\* call started, or out of the wait of its reconstruction.  Every step of
\* p under NextLive is such a move and no step of another party is.
MovesLive(p) ==
    /\ p \in DOMAIN pc
    /\ Runnable(p, LiveHarness)
    /\ \E x \in {"start", "idle", "waiting", "panicked"} :
          pc' = [pc EXCEPT ![p] = x]
    /\ \E d \in {0, 1} : ip' = [ip EXCEPT ![p] = @ + d]
    /\ <<pc'[p], ip'[p]>> # <<pc[p], ip[p]>>

\* Each party is a process of its own: when it can move on it does, sooner
\* or later.
FairLive == \A p \in 1 .. MaxN : WF_<<pc, ip>>(MovesLive(p))

SpecLive == InitIds /\ [][NextLive]_vars /\ FairLive

\* SpecReveal: every reconstruction of the evaluator, in F and in the three
\* groups, single and batched, after share_poly_eval has made a wire.
RevealHarness ==
    [lockstep |-> TRUE, calls |-> MaxCalls + 1, scalars |-> {},
     points |-> {1}, inputs |-> SomeInputs,
     strays |-> {}, longs |-> {}, skews |-> {0}, lens |-> {1},
     bases |-> {<<"Gt", 2>>}, names |-> {IbeC2Tag}]

NextReveal ==
    \/ \E p \in Parties : New(p, RevealHarness)
    \/ \E p \in Parties : SharePolyEval(p, RevealHarness)
    \/ \E p \in Parties : OutputWire(p, RevealHarness)
    \/ \E p \in Parties : BatchOutputWire(p, RevealHarness)
    \/ \E p \in Parties : BatchOutputWireInExponent(p, RevealHarness)
    \/ \E p \in Parties : AddG1ElementsFromAllParties(p, RevealHarness)
    \/ \E p \in Parties : AddG2ElementsFromAllParties(p, RevealHarness)
    \/ \E p \in Parties : AddGtElementsFromAllParties(p, RevealHarness)
    \/ \E p \in Parties : BatchAddG1ElementsFromAllParties(p, RevealHarness)
    \/ \E p \in Parties : BatchAddGtElementsFromAllParties(p, RevealHarness)
    \/ \E p \in Parties : ExpAndRevealG1(p, RevealHarness)
    \/ \E p \in Parties : ExpAndRevealG2(p, RevealHarness)
    \/ \E p \in Parties : ExpAndRevealGt(p, RevealHarness)

SpecReveal == InitIds /\ [][NextReveal]_vars

\* ------------------------------------------------------------- properties
\* Open(h): the sum of the parties' shares under handle h.
Open(h) == SumSeq([p \in 1 .. n |-> ev[p].wire_shares[h]])

\* Whether the k-th call of the circuit has returned at every party.
Done(k) == \A p \in Parties : Len(returned[p]) >= k

\* The sum of the shares under the i-th handle the k-th call returned, each
\* party's share taken under the handle that party was given.
OpenAt(k, i) ==
    SumSeq([p \in 1 .. n |-> ev[p].wire_shares[returned[p][k].handles[i]]])

\* C1: after all n parties have run mult(x, y) the shares under the returned
\* handle sum to Open(x) * Open(y), and after batch_mult(xs, ys) the shares
\* under the i-th returned handle sum to Open(xs[i]) * Open(ys[i]).
C1_MultOpensToProduct ==
    \A k \in DOMAIN prog :
        Done(k) =>
            /\ prog[k].op = "mult" =>
                  OpenAt(k, 1) = FMul(Open(prog[k].xs[1]), Open(prog[k].ys[1]))
            /\ prog[k].op = "batch_mult" =>
                  \A i \in DOMAIN prog[k].xs :
                      OpenAt(k, i) =
                          FMul(Open(prog[k].xs[i]), Open(prog[k].ys[i]))

\* Three parties have run a batch_mult of two positions whose first product
\* is not zero.
C1_Witness ==
    \E k \in DOMAIN prog :
        /\ n = 3
        /\ prog[k].op = "batch_mult"
        /\ Len(prog[k].xs) = 2
        /\ Done(k)
        /\ OpenAt(k, 1) # 0

\* C2: output_wire(h) returns at every party the sum of all n parties'
\* shares under h, each counted once; batch_output_wire returns it for each
\* handle in input order; when all parties hold the same share s the result
\* is n * s.
C2_OutputWireSumsShares ==
    \A p \in Parties :
        \A k \in DOMAIN returned[p] :
            /\ prog[k].op = "output_wire" =>
                  /\ returned[p][k].values = <<Open(prog[k].xs[1])>>
                  /\ \A s \in F :
                        (\A q \in Parties :
                            ev[q].wire_shares[prog[k].xs[1]] = s)
                        => returned[p][k].values[1] = (n * s) % P
            /\ prog[k].op = "batch_output_wire" =>
                  returned[p][k].values =
                      [i \in DOMAIN prog[k].xs |-> Open(prog[k].xs[i])]

\* Three parties holding the same non-zero share have all got the value of
\* output_wire.
C2_Witness ==
    \E k \in DOMAIN prog :
        /\ n = 3
        /\ prog[k].op = "output_wire"
        /\ Done(k)
        /\ \E s \in F \ {0} :
              \A q \in Parties : ev[q].wire_shares[prog[k].xs[1]] = s

\* The mask the j-th random sharing gives: the sum of the parties' shares.
MaskSum(j) == SumSeq([q \in 1 .. n |-> ev[q].rand_sharings[j]])

\* The position in rand_sharings of the first mask the k-th call consumed:
\* one more than the number of sharings the earlier calls consumed.
FirstMask(k) ==
    1 + SumSeq([i \in 1 .. (k - 1) |->
                  IF prog[i].op = "batch_inv" THEN Len(prog[i].xs) ELSE 0])

\* Whether the k-th call is a batch_inv of inputs that all open to non-zero
\* values, with a random sharing and a triple left for each of them (every
\* earlier batch_inv consumed one of either per input).
InvOfNonZero(k) ==
    /\ prog[k].op = "batch_inv"
    /\ \A i \in DOMAIN prog[k].xs : Open(prog[k].xs[i]) # 0
    /\ FirstMask(k) + Len(prog[k].xs) - 1 <= NUM_RAND_SHARINGS
    /\ FirstMask(k) + Len(prog[k].xs) - 1 <= NUM_BEAVER_TRIPLES

\* Whether every party has started the k-th call and is no longer inside it.
Over(k) ==
    \A p \in Parties :
        /\ ip[p] >= k
        /\ (ip[p] = k => pc[p] \in {"idle", "panicked"})

\* C3 as stated: for inputs that open to non-zero values, once all parties
\* have run batch_inv the i-th returned handle opens to the inverse of the
\* i-th input, whatever the random sharings are.
C3_InverseForEveryMask ==
    \A k \in DOMAIN prog :
        (Over(k) /\ InvOfNonZero(k)) =>
            /\ Done(k)
            /\ \A i \in DOMAIN prog[k].xs :
                  FMul(OpenAt(k, i), Open(prog[k].xs[i])) = 1

\* C3 amended: for inputs that open to non-zero values, once all parties
\* have run batch_inv, either the shares of every consumed random sharing
\* sum to a non-zero mask and the i-th returned handle opens to the inverse
\* of the i-th input, or some consumed mask is zero and the call has aborted
\* at every party.
C3_InverseForNonZeroMask ==
    \A k \in DOMAIN prog :
        (Over(k) /\ InvOfNonZero(k)) =>
            IF \A i \in DOMAIN prog[k].xs : MaskSum(FirstMask(k) + i - 1) # 0
            THEN /\ Done(k)
                 /\ \A i \in DOMAIN prog[k].xs :
                       FMul(OpenAt(k, i), Open(prog[k].xs[i])) = 1
            ELSE \A p \in Parties : pc[p] = "panicked" /\ ip[p] = k

\* Three parties have run a batch_inv of two inputs with non-zero masks.
C3_Witness ==
    \E k \in DOMAIN prog :
        /\ n = 3
        /\ InvOfNonZero(k)
        /\ Len(prog[k].xs) = 2
        /\ Done(k)

\* C4: at every party the wire table has an entry for every handle a gate
\* call has returned so far.
C4_ReturnedHandlesStored ==
    \A p \in Parties : ReturnedHandles(p) \subseteq DOMAIN ev[p].wire_shares

\* A batch_exp call has returned its handles at every party.
C4_Witness ==
    \E k \in DOMAIN prog :
        /\ prog[k].op = "batch_exp"
        /\ Done(k)
        /\ returned[1][k].handles # <<>>

\* The handles party p has been given, in the order it got them.
HandleSeq(p) == Flatten([k \in DOMAIN returned[p] |-> returned[p][k].handles])

\* The counter value a handle encodes.
HandleCounter(h) == Base58Value(h)

\* C5: a party's gate counter never decreases and grows whenever the party
\* is given a handle; the counter values its successive handles encode
\* strictly increase, so no two of its handles are equal.
C5_GateCounterIncreases ==
    /\ [](\A p \in Parties :
            /\ \A i, j \in DOMAIN HandleSeq(p) :
                  i < j => /\ HandleCounter(HandleSeq(p)[i])
                                < HandleCounter(HandleSeq(p)[j])
                           /\ HandleSeq(p)[i] # HandleSeq(p)[j]
            /\ \A i \in DOMAIN HandleSeq(p) :
                  HandleCounter(HandleSeq(p)[i]) <= ev[p].gate_counter)
    /\ [][\A p \in Parties :
            /\ ev'[p].gate_counter >= ev[p].gate_counter
            /\ Len(returned'[p]) > Len(returned[p])
               /\ returned'[p][Len(returned'[p])].handles # <<>>
               => ev'[p].gate_counter > ev[p].gate_counter]_vars

\* A party has been given at least four handles by two calls.
C5_Witness ==
    \E p \in Parties : Len(returned[p]) = 2 /\ Len(HandleSeq(p)) >= 4

\* C6: parties that have run the same calls (with their own ids, shares and
\* preprocessing) have equal gate, beaver and rand counters, and the k-th
\* call returned the same handles to each.
C6_HandlesAndCountersAgree ==
    \A p, q \in Parties :
        /\ \A k \in DOMAIN returned[p] \cap DOMAIN returned[q] :
              returned[p][k].handles = returned[q][k].handles
        /\ (pc[p] = "idle" /\ pc[q] = "idle" /\ ip[p] = ip[q]) =>
              /\ ev[p].gate_counter = ev[q].gate_counter
              /\ ev[p].beaver_counter = ev[q].beaver_counter
              /\ ev[p].rand_counter = ev[q].rand_counter

\* Three parties whose shares differ have each run two calls that gave
\* them handles and used preprocessing.
C6_Witness ==
    /\ n = 3
    /\ \A p \in Parties : pc[p] = "idle" /\ ip[p] = 2 /\ Len(returned[p]) = 2
    /\ returned[1][2].handles # <<>>
    /\ ev[1].beaver_counter > 0
    /\ \E h \in DOMAIN ev[1].wire_shares :
          ev[1].wire_shares[h] # ev[2].wire_shares[h]

\* C7: beaver_counter never exceeds NUM_BEAVER_TRIPLES and rand_counter never
\* exceeds NUM_RAND_SHARINGS; a ran, beaver or batch_beaver call that needs
\* an index beyond the list aborts and leaves both counters as they were.
C7_CountersWithinPreprocessing ==
    /\ [](\A p \in Parties :
            /\ ev[p].beaver_counter <= NUM_BEAVER_TRIPLES
            /\ ev[p].rand_counter <= NUM_RAND_SHARINGS)
    /\ [][\A p \in Parties :
            (/\ ip'[p] = ip[p] + 1
             /\ \/ /\ prog'[ip'[p]].op = "ran"
                   /\ ev[p].rand_counter + 1 > NUM_RAND_SHARINGS
                \/ /\ prog'[ip'[p]].op = "beaver"
                   /\ ev[p].beaver_counter + 1 > NUM_BEAVER_TRIPLES
                \/ /\ prog'[ip'[p]].op = "batch_beaver"
                   /\ ev[p].beaver_counter + prog'[ip'[p]].k
                         > NUM_BEAVER_TRIPLES)
            => /\ pc'[p] = "panicked"
               /\ ev'[p].beaver_counter = ev[p].beaver_counter
               /\ ev'[p].rand_counter = ev[p].rand_counter]_vars

\* A party has aborted in a ran call with every random sharing used up and
\* some triple used.
C7_Witness ==
    \E p \in Parties :
        /\ pc[p] = "panicked"
        /\ prog[ip[p]].op = "ran"
        /\ ev[p].rand_counter = NUM_RAND_SHARINGS
        /\ ev[p].beaver_counter > 0

\* Whether every party has built its evaluator.
AllBuilt == \A p \in Parties : pc[p] # "start"

\* The sum over the parties of component c of their i-th triple.
TripleSum(i, c) == SumSeq([p \in 1 .. n |-> ev[p].beaver_triples[i][c]])

\* C8: once preprocess_triples has run at all n parties, every party holds
\* NUM_BEAVER_TRIPLES triples and the parties' i-th triples sum to
\* (a_i, b_i, a_i * b_i), a_i and b_i being the i-th draws of party n's own
\* generator.
C8_TriplesMultiply ==
    AllBuilt =>
        /\ \A p \in Parties : Len(ev[p].beaver_triples) = NUM_BEAVER_TRIPLES
        /\ \A i \in 1 .. NUM_BEAVER_TRIPLES :
              /\ TripleSum(i, 1) = Draw(thread_rng[n], 2 * (i - 1))
              /\ TripleSum(i, 2) = Draw(thread_rng[n], 2 * (i - 1) + 1)
              /\ TripleSum(i, 3) = FMul(TripleSum(i, 1), TripleSum(i, 2))

\* Three parties have built their evaluators and the first triple's product
\* is not zero.
C8_Witness == AllBuilt /\ n = 3 /\ TripleSum(1, 3) # 0

\* C9 as stated: after preprocess_triples the triple list of the party with
\* id 1 is empty.
C9_PartyOneHoldsNoTriples ==
    pc[1] # "start" => ev[1].beaver_triples = <<>>

\* C9 amended: after preprocess_triples the party with id 1 holds
\* NUM_BEAVER_TRIPLES triples, the i-th being the first three seeded draws
\* of iteration i (the loop `for j in 1..n` starts with j = 1).
C9_PartyOneHoldsSeededTriples ==
    pc[1] # "start" =>
        /\ Len(ev[1].beaver_triples) = NUM_BEAVER_TRIPLES
        /\ \A i \in 1 .. NUM_BEAVER_TRIPLES :
              ev[1].beaver_triples[i] =
                  <<Draw(seeded_rng, 3 * (n - 1) * (i - 1)),
                    Draw(seeded_rng, 3 * (n - 1) * (i - 1) + 1),
                    Draw(seeded_rng, 3 * (n - 1) * (i - 1) + 2)>>

\* Party 1 of three has built its evaluator from a seed whose draws differ.
C9_Witness == pc[1] # "start" /\ n = 3 /\ seeded_rng[2] # 0

\* C10: after all parties have run add(x, y), sub(x, y) or scale(x, k) the
\* shares under the returned handle sum to Open(x) + Open(y),
\* Open(x) - Open(y) and k * Open(x).
C10_LinearGatesOpen ==
    \A k \in DOMAIN prog :
        Done(k) =>
            /\ prog[k].op = "add" =>
                  OpenAt(k, 1) = FAdd(Open(prog[k].xs[1]), Open(prog[k].ys[1]))
            /\ prog[k].op = "sub" =>
                  OpenAt(k, 1) = FSub(Open(prog[k].xs[1]), Open(prog[k].ys[1]))
            /\ prog[k].op = "scale" =>
                  OpenAt(k, 1) = FMul(prog[k].k, Open(prog[k].xs[1]))

\* Three parties have run add(x, x) on a non-zero x and then a scale by a
\* scalar other than 0 and 1.
C10_Witness ==
    /\ n = 3
    /\ Len(prog) = 3
    /\ Done(3)
    /\ prog[2].op = "add"
    /\ prog[2].xs = prog[2].ys
    /\ OpenAt(2, 1) # 0
    /\ prog[3].op = "scale"
    /\ prog[3].k > 1

\* The share party p holds under the i-th handle its k-th call returned.
ShareAt(p, k, i) == ev[p].wire_shares[returned[p][k].handles[i]]

\* C11: fixed_wire_handle(v) stores v at party 1 and 0 at every other party,
\* and clear_add(x, v) stores get(x) + v at party 1 and get(x) at every other
\* party, so that the results open to v and to Open(x) + v.
C11_PublicValueAtPartyOne ==
    \A k \in DOMAIN prog :
        Done(k) =>
            /\ prog[k].op = "fixed_wire_handle" =>
                  /\ \A p \in Parties :
                        ShareAt(p, k, 1) = IF p = 1 THEN prog[k].k ELSE 0
                  /\ OpenAt(k, 1) = prog[k].k
            /\ prog[k].op = "clear_add" =>
                  /\ \A p \in Parties :
                        ShareAt(p, k, 1) =
                            IF p = 1
                            THEN FAdd(get_wire(ev[p], prog[k].xs[1]), prog[k].k)
                            ELSE get_wire(ev[p], prog[k].xs[1])
                  /\ OpenAt(k, 1) = FAdd(Open(prog[k].xs[1]), prog[k].k)

\* Three parties have run clear_add with a non-zero value on the wire of a
\* fixed_wire_handle with a non-zero value.
C11_Witness ==
    /\ n = 3
    /\ Len(prog) >= 2
    /\ Done(2)
    /\ prog[1].op = "fixed_wire_handle" /\ prog[1].k # 0
    /\ prog[2].op = "clear_add" /\ prog[2].k # 0
    /\ prog[2].xs[1] = returned[1][1].handles[1]

\* C12: after all parties have run batch_exp(xs) the shares under the i-th
\* returned handle sum to Open(xs[i]) raised to 2^LOG_PERM_SIZE.
C12_BatchExpOpensToPower ==
    \A k \in DOMAIN prog :
        (Done(k) /\ prog[k].op = "batch_exp") =>
            \A i \in DOMAIN prog[k].xs :
                OpenAt(k, i) = FPow(Open(prog[k].xs[i]), 2 ^ LOG_PERM_SIZE)

\* Two parties have run batch_exp on two wires, one of them holding a value
\* whose square differs from its fourth power.
C12_Witness ==
    \E k \in DOMAIN prog :
        /\ n = 2
        /\ Done(k)
        /\ prog[k].op = "batch_exp"
        /\ Len(prog[k].xs) = 2
        /\ FPow(Open(prog[k].xs[1]), 2) # FPow(Open(prog[k].xs[1]), 4)

\* The two encryption routines.
IbeOps == {"dist_ibe_encrypt", "batch_dist_ibe_encrypt_with_common_mask"}

\* How many of the calls party p has started are of a kind in ops.
CallsOf(p, ops) == Cardinality({k \in 1 .. ip[p] : prog[k].op \in ops})

\* C13 as stated: each encryption consumes one preprocessed random sharing,
\* so that between calls rand_counter counts the ran calls and the
\* encryptions.
C13_IbeConsumesOneSharing ==
    \A p \in Parties :
        pc[p] = "idle" =>
            ev[p].rand_counter = CallsOf(p, {"ran"} \cup IbeOps)

\* C13, amended: the encryptions leave rand_counter as it is (the mask is
\* the wire the caller passes), so that between calls rand_counter counts
\* the ran calls alone.
C13_IbeLeavesRandCounter ==
    \A p \in Parties :
        pc[p] = "idle" => ev[p].rand_counter = CallsOf(p, {"ran"})

\* A party of three is back from an encryption whose mask is the wire of the
\* ran call before it.
C13_Witness ==
    \E p \in Parties :
        /\ n = 3
        /\ pc[p] = "idle"
        /\ ip[p] = 3
        /\ prog[2].op = "ran"
        /\ prog[3].op \in IbeOps
        /\ prog[3].ys[1] = returned[p][2].handles[1]
        /\ Len(returned[p]) = 3

\* Whether party p sends in the step: only p's own sends make the box of
\* its messages at another party longer.
Sent(p) ==
    \E q \in Parties \ {p} : Len(inbox'[q][p]) > Len(inbox[q][p])

\* C14 as stated: inside an encryption no send_to_all is issued once the
\* first recv_from_all has been awaited.
C14_IbeOneRound ==
    [][\A p \in Parties :
          (pc[p] = "waiting" /\ frame[p].call.op \in IbeOps) => ~Sent(p)]_vars

\* C14, amended: an encryption takes two rounds of reconstruction, one for
\* C1 and then one for C2: it sends at its start and once more after the
\* answer to its first recv_from_all, and nothing after the recv_from_all
\* of the second round, from which it returns.
C14_IbeTwoRounds ==
    /\ [](\A p \in Parties :
            (pc[p] = "waiting" /\ frame[p].call.op \in IbeOps) =>
                frame[p].stage <= 1)
    /\ [][\A p \in Parties :
            (pc[p] = "waiting" /\ frame[p].call.op \in IbeOps /\ Sent(p)) =>
                frame[p].stage = 0]_vars

\* Whether text s starts with text t.
StartsWith(s, t) == Len(s) >= Len(t) /\ SubSeq(s, 1, Len(t)) = t

\* A party is in the second round of an encryption and its C2 message is on
\* its way to another party.
C14_Witness ==
    \E p \in Parties : \E q \in Parties \ {p} :
        /\ pc[p] = "waiting"
        /\ frame[p].call.op \in IbeOps
        /\ frame[p].stage = 1
        /\ \E i \in DOMAIN inbox[q][p] : StartsWith(inbox[q][p][i][1], IbeC2Tag)

\* C15: after all parties have run dist_ibe_encrypt on the handles of z and
\* r, every party has obtained C1 = r*g1 and C2 = z*gT + r*e(H(id), pk).
C15_DistIbeCiphertext ==
    \A k \in DOMAIN prog :
        (Done(k) /\ prog[k].op = "dist_ibe_encrypt") =>
            \A p \in Parties :
                returned[p][k].values =
                    << GroupMul(GroupGenerator("G1"), Open(prog[k].ys[1])),
                       GroupAdd(GroupMul(GroupGenerator("Gt"),
                                         Open(prog[k].xs[1])),
                                GroupMul(pairing(hash_to_g1(prog[k].ids[1]),
                                                 prog[k].pk),
                                         Open(prog[k].ys[1]))) >>

\* Three parties have encrypted a non-zero message under a non-zero mask
\* held on another wire.
C15_Witness ==
    \E k \in DOMAIN prog :
        /\ n = 3
        /\ Done(k)
        /\ prog[k].op = "dist_ibe_encrypt"
        /\ prog[k].xs # prog[k].ys
        /\ Open(prog[k].xs[1]) # 0
        /\ Open(prog[k].ys[1]) # 0
        /\ Open(prog[k].xs[1]) # Open(prog[k].ys[1])

Coef(poly, j) == IF j \in DOMAIN poly THEN poly[j] ELSE 0

CoefSum(profile, j) == SumSeq([q \in 1 .. n |-> Coef(profile[q], j)])

\* The j-th coefficient of the product of the sums of two profiles.
ProductCoef(f, g, j) ==
    SumSeq([a \in 1 .. j |-> FMul(CoefSum(f, a), CoefSum(g, j + 1 - a))])

\* C17: for share polynomials of fewer than PERM_SIZE + 1 coefficients,
\* after all parties have run share_poly_mult the coefficient-wise sum of
\* the polynomials they obtained is the product of the two polynomials
\* shared.
C17_SharePolyMultOpensToProduct ==
    \A k \in DOMAIN prog :
        (Done(k) /\ prog[k].op = "share_poly_mult") =>
            \A j \in 1 .. (2 * PERM_SIZE) :
                SumSeq([p \in 1 .. n |-> Coef(returned[p][k].values, j)]) =
                    ProductCoef(prog[k].polys, prog[k].polys_g, j)

\* Three parties have multiplied two polynomials of degree one whose product
\* has degree two and a non-zero middle coefficient.
C17_Witness ==
    /\ n = 3
    /\ Len(prog) = 1
    /\ Done(1)
    /\ prog[1].op = "share_poly_mult"
    /\ prog[1].polys # prog[1].polys_g
    /\ ProductCoef(prog[1].polys, prog[1].polys_g, 3) # 0
    /\ ProductCoef(prog[1].polys, prog[1].polys_g, 2) # 0

\* The value of a polynomial at x, by the powers of x.
PolyValue(poly, x) ==
    SumSeq([j \in 1 .. Len(poly) |-> FMul(poly[j], FPow(x, j - 1))])

\* C18: share_poly_eval stores the value at x of the party's own polynomial
\* under the handle it returns, so that the stored values sum to the value
\* at x of the coefficient-wise sum of the parties' polynomials; the empty
\* polynomial gives the share 0, and the handle differs from those of the
\* party's earlier calls.
C18_SharePolyEvalOpensToValue ==
    \A k \in DOMAIN prog :
        (Done(k) /\ prog[k].op = "share_poly_eval") =>
            /\ \A p \in Parties :
                  /\ ShareAt(p, k, 1) = PolyValue(prog[k].polys[p], prog[k].k)
                  /\ prog[k].polys[p] = <<>> => ShareAt(p, k, 1) = 0
                  /\ \A k2 \in 1 .. (k - 1) :
                        returned[p][k2].handles # returned[p][k].handles
            /\ OpenAt(k, 1) =
                  PolyValue([j \in 1 .. (PERM_SIZE + 1) |->
                                CoefSum(prog[k].polys, j)], prog[k].k)

\* Three parties have evaluated, in their second call, polynomials of
\* three coefficients, the highest of them not summing to zero, at a point
\* other than 0 and 1.
C18_Witness ==
    /\ n = 3
    /\ Len(prog) = 2
    /\ Done(2)
    /\ prog[2].op = "share_poly_eval"
    /\ prog[2].k \notin {0, 1}
    /\ Len(prog[2].polys[1]) = 3
    /\ CoefSum(prog[2].polys, 3) # 0

\* The batched reconstructions that send in slices, the group each works
\* in ("F" for batch_output_wire) and its threshold.
ChunkOps ==
    {"batch_output_wire", "batch_add_g1_elements_from_all_parties",
     "batch_add_gt_elements_from_all_parties"}

GroupOfOp(op) ==
    IF op = "batch_output_wire" THEN "F"
    ELSE IF op = "batch_add_g1_elements_from_all_parties" THEN "G1" ELSE "Gt"

ThresholdOf(op) ==
    IF op = "batch_output_wire" THEN F_CHUNK
    ELSE IF op = "batch_add_g1_elements_from_all_parties" THEN G1_CHUNK
    ELSE GT_CHUNK

\* The full aligned (identifier, payload) list of party p for call c.
AlignedList(p, c) ==
    [i \in 1 .. Len(c.xs) |->
        <<c.xs[i],
          IF c.op = "batch_output_wire"
          THEN encode_f_as_bs58_str(ev[p].wire_shares[c.xs[i]])
          ELSE EncodeIn(GroupOfOp(c.op), c.polys[p][i])>>]

\* The i-th value call c reconstructs: the sum of the parties' i-th items.
SumOfItems(c, i) ==
    IF c.op = "batch_output_wire"
    THEN SumSeq([q \in 1 .. n |-> ev[q].wire_shares[c.xs[i]]])
    ELSE <<GroupOfOp(c.op), SumSeq([q \in 1 .. n |-> c.polys[q][i][2]])>>

\* C19: a batched reconstruction of L items sends them in ceil(L/threshold)
\* send_to_all calls when L exceeds the threshold, each call with at least
\* one and at most threshold items, and in one call otherwise; the calls
\* put end to end are the full aligned list; and whatever L is, the i-th
\* value every party returns is the sum of the parties' i-th items.
C19_SlicesCoverTheList ==
    /\ \A p \in Parties :
          (pc[p] = "waiting" /\ frame[p].stage = 0
                /\ frame[p].call.op \in ChunkOps) =>
             /\ Flatten(frame[p].sent) = AlignedList(p, frame[p].call)
             /\ IF Len(frame[p].call.xs) > ThresholdOf(frame[p].call.op)
                THEN /\ Len(frame[p].sent) =
                          (Len(frame[p].call.xs)
                              + ThresholdOf(frame[p].call.op) - 1)
                           \div ThresholdOf(frame[p].call.op)
                     /\ \A i \in DOMAIN frame[p].sent :
                          Len(frame[p].sent[i]) \in
                              1 .. ThresholdOf(frame[p].call.op)
                ELSE frame[p].sent = <<AlignedList(p, frame[p].call)>>
    /\ \A k \in DOMAIN prog :
          (Done(k) /\ prog[k].op \in ChunkOps) =>
             \A p \in Parties :
                returned[p][k].values =
                    [i \in 1 .. Len(prog[k].xs) |-> SumOfItems(prog[k], i)]

\* Three parties have opened a list of two full slices and one more wire.
C19_Witness ==
    /\ n = 3
    /\ \E k \in DOMAIN prog :
          /\ Done(k)
          /\ prog[k].op = "batch_output_wire"
          /\ Len(prog[k].xs) = 2 * F_CHUNK + 1

\* Whether the aligned lists of call c differ in length.
MismatchedLengths(c) ==
    IF c.op = "batch_mult" THEN Len(c.xs) # Len(c.ys)
    ELSE IF c.op = "batch_add_gt_elements_from_all_parties"
    THEN \E q \in DOMAIN c.polys : Len(c.polys[q]) # Len(c.xs)
    ELSE IF c.op = "exp_and_reveal_gt" THEN Len(c.bases) # Len(c.xs)
    ELSE IF c.op = "batch_dist_ibe_encrypt_with_common_mask"
    THEN Len(c.xs) # Len(c.ids)
    ELSE FALSE

\* C20 as stated: an operation on aligned lists that is handed lists of
\* different lengths aborts, so that no party returns from the call.
C20_MismatchedLengthsAbort ==
    \A k \in DOMAIN prog :
        MismatchedLengths(prog[k]) =>
            \A p \in Parties : Len(returned[p]) < k

\* The part of C20 the assertions do enforce: batch_mult and
\* batch_add_gt_elements_from_all_parties stop at their start when the
\* lengths differ.
C20_AssertingOperationsAbort ==
    \A k \in DOMAIN prog :
        (MismatchedLengths(prog[k])
            /\ prog[k].op \in {"batch_mult",
                                "batch_add_gt_elements_from_all_parties"}) =>
            \A p \in Parties : ip[p] >= k => pc[p] = "panicked"

\* A party has run into the assertion of batch_mult.
C20_Witness ==
    \E k \in DOMAIN prog :
        /\ prog[k].op = "batch_mult"
        /\ Len(prog[k].xs) = 1
        /\ Len(prog[k].ys) = 2
        /\ \E p \in Parties : ip[p] >= k

\* The position in rand_sharings of the first sharing the k-th call, a
\* batch_ran_64, draws: one more than the lengths of the earlier calls.
FirstDrawn(k) ==
    1 + SumSeq([i \in 1 .. (k - 1) |->
                  IF prog[i].op = "batch_ran_64" THEN prog[i].k ELSE 0])

\* Whether the k-th call is a batch_ran_64 with a random sharing for each of
\* its values and LOG_PERM_SIZE triples for each of them, every party
\* having built its evaluator.
Ran64Supplied(k) ==
    /\ prog[k].op = "batch_ran_64"
    /\ \A q \in Parties : pc[q] # "start"
    /\ FirstDrawn(k) + prog[k].k - 1 <= NUM_RAND_SHARINGS
    /\ LOG_PERM_SIZE * (FirstDrawn(k) + prog[k].k - 1) <= NUM_BEAVER_TRIPLES

\* Whether one of the values a_i the k-th call draws has
\* Open(a_i)^(2^LOG_PERM_SIZE) = 0.
Ran64OpensZero(k) ==
    \E i \in 1 .. prog[k].k :
        FPow(MaskSum(FirstDrawn(k) + i - 1), 2 ^ LOG_PERM_SIZE) = 0

\* C21: no party returns from a batch_ran_64 one of whose opened powers is
\* zero, and a party aborts inside a supplied batch_ran_64 only then: its
\* own shares being zero does not stop it.
C21_Ran64AbortsOnOpenedZero ==
    \A k \in DOMAIN prog :
        Ran64Supplied(k) =>
            \A p \in Parties :
                /\ Ran64OpensZero(k) => Len(returned[p]) < k
                /\ (ip[p] = k /\ pc[p] = "panicked") => Ran64OpensZero(k)

\* Two batch_ran_64 calls of one value each: the first, whose power opens
\* to a non-zero value, has returned at a party whose own share of the
\* value is zero; the second, whose power opens to zero, has aborted at a
\* party whose own share of the value is not zero.
C21_Witness ==
    /\ Len(prog) = 2
    /\ Ran64Supplied(1) /\ Ran64Supplied(2)
    /\ prog[1].k = 1 /\ prog[2].k = 1
    /\ Done(1)
    /\ ~Ran64OpensZero(1)
    /\ \E p \in Parties : ev[p].rand_sharings[1] = 0
    /\ Ran64OpensZero(2)
    /\ \E p \in Parties :
          pc[p] = "panicked" /\ ip[p] = 2 /\ ev[p].rand_sharings[2] # 0

\* The handles call c passes to its gate.
HandleArgs(c) ==
    Range(c.xs) \cup
    (IF c.op \in {"add", "sub", "mult", "batch_mult"} THEN Range(c.ys) ELSE {})

\* Whether party p starts a gate call in the step, and the call it starts.
Starts(p) == ip'[p] = ip[p] + 1

Started(p) == prog'[ip'[p]]

\* C22 as stated: a party that starts a gate call with a handle its wire
\* table lacks aborts.
C22_MissingHandleAborts ==
    [][\A p \in Parties :
          (Starts(p)
             /\ ~(HandleArgs(Started(p)) \subseteq DOMAIN ev[p].wire_shares)) =>
             pc'[p] = "panicked"]_vars

\* How many labels a call issues before its first await: the triple and the
\* two sums per product, and the random sharing per inverse.
LabelsIssued(c) ==
    IF c.op = "mult" THEN 5
    ELSE IF c.op \in {"batch_mult", "batch_exp"} THEN 5 * Len(c.xs)
    ELSE IF c.op = "batch_inv" THEN 6 * Len(c.xs)
    ELSE 0

\* What the code does enforce: a party that starts a gate call aborts when
\* a handle of the call is neither in its wire table nor one of the labels
\* the call itself issues before it reads its arguments; the gates that
\* issue nothing before reading (add, sub, scale, clear_add, output_wire,
\* batch_output_wire) abort on every handle the table lacks.
C22_UnreadableHandleAborts ==
    [][\A p \in Parties :
          (Starts(p)
             /\ ~(HandleArgs(Started(p)) \subseteq
                    DOMAIN ev[p].wire_shares
                    \cup {WireLabel(ev[p].gate_counter + j) :
                            j \in 1 .. LabelsIssued(Started(p))})) =>
             pc'[p] = "panicked"]_vars

\* With one wire in the table, a party has aborted in a mult of that wire
\* and a handle that is not in the table.
C22_Witness ==
    /\ Len(prog) = 2
    /\ prog[2].op = "mult"
    /\ prog[2].xs[1] \in DOMAIN ev[1].wire_shares
    /\ prog[2].ys[1] \notin DOMAIN ev[1].wire_shares
    /\ ip[1] = 2
    /\ pc[1] = "panicked"

LocalOps ==
    {"add", "sub", "scale", "fixed_wire_handle", "clear_add", "ran",
     "share_poly_eval"}

\* C23: a step in which a party runs a local gate to its return leaves
\* every inbox as it is (nothing sent, nothing received) and the party
\* outside any call, advances the party's gate counter by one, adds one
\* entry to its wire table and keeps the others, advances rand_counter by
\* one for ran and by nothing otherwise, and leaves the beaver counter, the
\* preprocessed lists and the other parties' evaluators unchanged.
C23_LocalGatesFrame ==
    [][\A p \in Parties :
          (Starts(p) /\ Started(p).op \in LocalOps /\ pc'[p] # "panicked") =>
             /\ inbox' = inbox
             /\ pc'[p] = "idle"
             /\ Len(returned'[p]) = Len(returned[p]) + 1
             /\ ev'[p].gate_counter = ev[p].gate_counter + 1
             /\ DOMAIN ev[p].wire_shares \subseteq DOMAIN ev'[p].wire_shares
             /\ Cardinality(DOMAIN ev'[p].wire_shares) =
                   Cardinality(DOMAIN ev[p].wire_shares) + 1
             /\ \A w \in DOMAIN ev[p].wire_shares :
                   ev'[p].wire_shares[w] = ev[p].wire_shares[w]
             /\ ev'[p].rand_counter =
                   ev[p].rand_counter + IF Started(p).op = "ran" THEN 1 ELSE 0
             /\ ev'[p].beaver_counter = ev[p].beaver_counter
             /\ ev'[p].beaver_triples = ev[p].beaver_triples
             /\ ev'[p].rand_sharings = ev[p].rand_sharings
             /\ ev'[p].messaging = ev[p].messaging
             /\ \A q \in Parties \ {p} : ev'[q] = ev[q]]_vars

\* A party has run ran, then add, then scale: three wires in its table, one
\* random sharing consumed.
C23_Witness ==
    \E p \in Parties :
        /\ Len(returned[p]) = 3
        /\ prog[1].op = "ran"
        /\ prog[2].op = "add"
        /\ prog[3].op = "scale"
        /\ ev[p].rand_counter = 1
        /\ Cardinality(DOMAIN ev[p].wire_shares) = 3

\* Whether party p, inside a call of kind op, runs the call's next stage in
\* the step.
Resumes(p, op) ==
    /\ pc[p] = "waiting"
    /\ frame[p].call.op = op
    /\ frame'[p] # frame[p]

\* C24: a party that starts a batch_mult of L pairs takes the triples at the
\* L positions after its beaver counter, advances the counter by L and
\* sends, before any receive, the 2L pairs of the handles of x+a and y+b and
\* its shares under them; in the step after the receives it sends nothing,
\* leaves the counter alone and returns L handles.
C24_BatchMultOneRound ==
    [][\A p \in Parties :
          /\ (Starts(p) /\ Started(p).op = "batch_mult"
                /\ pc'[p] # "panicked") =>
                /\ pc'[p] = "waiting"
                /\ ev'[p].beaver_counter =
                      ev[p].beaver_counter + Len(Started(p).xs)
                /\ \A i \in DOMAIN Started(p).xs :
                      <<frame'[p].loc.bk_a[i], frame'[p].loc.bk_b[i],
                        frame'[p].loc.bk_c[i]>> =
                      ev[p].beaver_triples[ev[p].beaver_counter + i]
                /\ Len(frame'[p].wait) = 2 * Len(Started(p).xs)
                /\ Flatten(frame'[p].sent) =
                      [i \in DOMAIN frame'[p].wait |->
                          <<frame'[p].wait[i],
                            encode_f_as_bs58_str(
                                ev'[p].wire_shares[frame'[p].wait[i]])>>]
          /\ Resumes(p, "batch_mult") =>
                /\ ~Sent(p)
                /\ pc'[p] = "idle"
                /\ ev'[p].beaver_counter = ev[p].beaver_counter
                /\ Len(returned'[p][Len(returned'[p])].handles) =
                      Len(frame[p].call.xs)]_vars

\* Three parties have run a batch_mult of two pairs after a mult: the
\* triples at positions 2 and 3 are consumed.
C24_Witness ==
    /\ n = 3
    /\ Len(prog) = 3
    /\ prog[2].op = "mult"
    /\ prog[3].op = "batch_mult"
    /\ Len(prog[3].xs) = 2
    /\ Done(3)
    /\ \A p \in Parties : ev[p].beaver_counter = 3

\* The reconstruction rounds of the composite gates.
RoundsOf(op) == IF op = "batch_exp" THEN LOG_PERM_SIZE ELSE 1

\* C25: a party inside batch_exp or share_poly_mult starts a round of
\* reconstruction (a send phase, then the receives) when it starts the call
\* and after each round but the last, and returns without sending after the
\* last: batch_exp takes LOG_PERM_SIZE rounds whatever the length of its
\* input, share_poly_mult one.
C25_RoundsOfCompositeGates ==
    [][\A p \in Parties : \A op \in {"batch_exp", "share_poly_mult"} :
          /\ (Starts(p) /\ Started(p).op = op /\ pc'[p] # "panicked") =>
                /\ pc'[p] = "waiting"
                /\ frame'[p].stage = 0
                /\ frame'[p].sent # <<>>
          /\ (Resumes(p, op) /\ pc'[p] # "panicked") =>
                IF frame[p].stage + 1 < RoundsOf(op)
                THEN /\ pc'[p] = "waiting"
                     /\ frame'[p].stage = frame[p].stage + 1
                     /\ frame'[p].sent # <<>>
                ELSE /\ pc'[p] = "idle"
                     /\ ~Sent(p)]_vars

\* Three parties have returned from a batch_exp of two handles.
C25_Witness ==
    /\ n = 3
    /\ Len(prog) = 2
    /\ prog[2].op = "batch_exp"
    /\ Len(prog[2].xs) = 2
    /\ Done(2)

\* C26: a step in which a party builds its evaluator changes no inbox, and
\* the evaluator it gets has the three counters at zero and an empty wire
\* table.
C26_NewIsLocal ==
    [][\A p \in Parties :
          (pc[p] = "start" /\ pc'[p] # "start") =>
             /\ inbox' = inbox
             /\ frame'[p].sent = <<>>
             /\ ev'[p].gate_counter = 0
             /\ ev'[p].beaver_counter = 0
             /\ ev'[p].rand_counter = 0
             /\ DOMAIN ev'[p].wire_shares = {}]_vars

\* Each of three parties has built its evaluator, with its preprocessed
\* lists filled.
C26_Witness ==
    /\ n = 3
    /\ \A p \in Parties :
          /\ pc[p] = "idle"
          /\ Len(ev[p].beaver_triples) = NUM_BEAVER_TRIPLES
          /\ Len(ev[p].rand_sharings) = NUM_RAND_SHARINGS

\* q is the quotient of f by X - z: f = q * (X - z) + r for a constant r.
IsQuotient(q, f, z) ==
    \E r \in F :
        \A j \in 1 .. (PERM_SIZE + 2) :
            Coef(f, j) = FAdd(FSub(Coef(q, j - 1), FMul(z, Coef(q, j))),
                              IF j = 1 THEN r ELSE 0)

TrueQuotient(f, z) ==
    CHOOSE q \in {from_coefficients_vec(s) : s \in SeqUpTo(F, PERM_SIZE)} :
        IsQuotient(q, f, z)

\* The sum f_1 + ... + f_n of the parties' polynomials.
SumPoly(profile) == [j \in 1 .. (PERM_SIZE + 1) |-> CoefSum(profile, j)]

\* The parties' quotients by X - z add up to the quotient of the sum, and
\* their proofs to the commitment to it.
ProofsAddUp(pp, profile, z, proofs) ==
    /\ \A j \in 1 .. PERM_SIZE :
          CoefSum([q \in 1 .. n |->
                      divide_with_q_and_r(
                          profile[q],
                          from_coefficients_vec(<<FSub(0, z), 1>>)).q], j)
            = Coef(TrueQuotient(SumPoly(profile), z), j)
    /\ <<"G1", SumSeq([q \in 1 .. n |-> proofs[q][2]])>>
         = commit_g1(pp, TrueQuotient(SumPoly(profile), z))

\* C27: the G1 outputs of eval_proof_with_share_poly at the n parties add up
\* to the commitment to the quotient of f_1 + ... + f_n by X - z, the
\* parties' quotients adding up to that quotient; the batched form returns,
\* at every position, outputs that add up the same way for that position's
\* polynomials and point.
C27_ProofSharesAddUp ==
    \A k \in DOMAIN prog :
        Done(k) =>
            /\ prog[k].op = "eval_proof_with_share_poly" =>
                  ProofsAddUp(prog[k].pp, prog[k].polys, prog[k].k,
                              [q \in 1 .. n |-> returned[q][k].values[1]])
            /\ prog[k].op = "batch_eval_proof_with_share_poly" =>
                  \A i \in DOMAIN prog[k].polys[1] :
                      /\ \A q \in 1 .. n : Len(returned[q][k].values)
                                             = Len(prog[k].polys[1])
                      /\ ProofsAddUp(prog[k].pp,
                                     [q \in 1 .. n |-> prog[k].polys[q][i]],
                                     prog[k].z_s[i],
                                     [q \in 1 .. n |->
                                         returned[q][k].values[i]])

\* A batched call of three parties has returned proofs for two polynomials
\* at two different non-zero points, one of them the setup's secret; the
\* parties' polynomials at the first position are not all of one degree and
\* the two positions' proofs differ at a party.
C27_Witness ==
    /\ n = 3
    /\ Len(prog) = 1 /\ Done(1)
    /\ prog[1].op = "batch_eval_proof_with_share_poly"
    /\ Len(prog[1].polys[1]) = 2
    /\ prog[1].z_s = <<2, 3>>
    /\ prog[1].pp = UniversalParams(2, PERM_SIZE)
    /\ \E q \in Parties : Len(prog[1].polys[q][1]) # Len(prog[1].polys[1][1])
    /\ \A i \in 1 .. 2 :
          TrueQuotient(SumPoly([q \in 1 .. n |-> prog[1].polys[q][i]]),
                       prog[1].z_s[i]) # <<>>
    /\ \E q \in Parties :
          returned[q][1].values[1] # returned[q][1].values[2]
    /\ \E q \in Parties : returned[q][1].values[1] # GroupZero("G1")

\* The single form has returned at three parties for a polynomial of degree
\* two and a non-zero point.
C27_WitnessSingle ==
    /\ n = 3
    /\ Done(1)
    /\ prog[1].op = "eval_proof_with_share_poly"
    /\ prog[1].k # 0
    /\ Len(TrueQuotient(SumPoly(prog[1].polys), prog[1].k)) = PERM_SIZE

\* Whether w has multiplicative order exactly nn.
ExactOrder(w, nn) ==
    /\ FPow(w, nn) = 1
    /\ \A i \in 1 .. (nn - 1) : FPow(w, i) # 1

\* Party p has started the k-th call and it has ended its process.
AbortedIn(p, k) ==
    ip[p] = k /\ Len(returned[p]) = k - 1 /\ pc[p] = "panicked"

\* C28 as stated: for every power of two, the call returns an element of
\* exact order nn; for 0 and the sizes that are no powers of two it aborts.
C28_EveryPowerOfTwoHasGenerator ==
    \A k \in DOMAIN prog : \A p \in Parties :
        (prog[k].op = "multiplicative_subgroup_of_size" /\ ip[p] >= k) =>
            IF IsPowerOf2(prog[k].k)
            THEN /\ Len(returned[p]) >= k
                 /\ ExactOrder(returned[p][k].values[1], prog[k].k)
            ELSE AbortedIn(p, k)

\* C28: for a power of two nn that divides |F| - 1 (nn up to
\* 2^TWO_ADICITY), multiplicative_subgroup_of_size(nn) returns an element
\* of multiplicative order exactly nn; for every other nn (0, no power of
\* two, or a power of two above 2^TWO_ADICITY) the call aborts.
C28_GeneratorUpToTwoAdicity ==
    \A k \in DOMAIN prog : \A p \in Parties :
        (prog[k].op = "multiplicative_subgroup_of_size" /\ ip[p] >= k) =>
            IF IsPowerOf2(prog[k].k) /\ prog[k].k <= 2 ^ TWO_ADICITY
            THEN /\ Len(returned[p]) >= k
                 /\ ExactOrder(returned[p][k].values[1], prog[k].k)
            ELSE AbortedIn(p, k)

\* A party has got the generator of the largest subgroup and then run
\* into the abort for the next power of two.
C28_Witness ==
    /\ Len(prog) = 2
    /\ prog[1].op = "multiplicative_subgroup_of_size"
    /\ prog[1].k = 2 ^ TWO_ADICITY
    /\ prog[2].k = 2 * (2 ^ TWO_ADICITY)
    /\ \E p \in Parties :
          /\ Len(returned[p]) = 1
          /\ returned[p][1].values[1] # 1
          /\ AbortedIn(p, 2)

\* C29: wire shares are write-once: every handle in a party's wire table
\* is still in it after any step, with the same share.
C29_WireSharesWriteOnce ==
    [][\A p \in Parties :
          \A hd \in DOMAIN ev[p].wire_shares :
              /\ hd \in DOMAIN ev'[p].wire_shares
              /\ ev'[p].wire_shares[hd] = ev[p].wire_shares[hd]]_vars

\* A party that holds an input and a sharing has returned from the batched
\* encryption of the input, whose wire of 1 joined its table: the table has
\* the three handles, under three different shares.
C29_Witness ==
    \E p \in Parties :
        /\ Len(returned[p]) = 3
        /\ prog[3].op = "batch_dist_ibe_encrypt_with_common_mask"
        /\ Len(prog[3].xs) = 1
        /\ DOMAIN ev[p].wire_shares = {WireLabel(1), WireLabel(2), WireLabel(3)}
        /\ ev[p].wire_shares[WireLabel(3)] = 1
        /\ ev[p].wire_shares[WireLabel(1)] \notin {0, 1}
        /\ ev[p].wire_shares[WireLabel(2)]
             \notin {1, ev[p].wire_shares[WireLabel(1)]}

\* The wire party p has under the label of counter value g after the step.
WireAfter(p, g) == ev'[p].wire_shares[WireLabel(g)]

\* In the step, party p has put the triples at the positions after its
\* beaver counter, as many as the counter advances by, under the labels
\* after its gate counter, three for each triple in the order a, b, c.
TakesNextTriples(p) ==
    \A i \in 1 .. (ev'[p].beaver_counter - ev[p].beaver_counter) :
        \A j \in 1 .. 3 :
            WireAfter(p, ev[p].gate_counter + 3 * (i - 1) + j)
              = ev[p].beaver_triples[ev[p].beaver_counter + i][j]

\* The triples the call takes when it starts.
TriplesOf(c) ==
    IF c.op \in {"beaver", "mult"} THEN 1
    ELSE IF c.op = "batch_beaver" THEN c.k
    ELSE IF c.op = "batch_mult" THEN Len(c.xs)
    ELSE 0

C30_CountersOnlyAdvance ==
    [][\A p \in Parties :
          pc[p] # "start" =>
            /\ ev'[p].beaver_triples = ev[p].beaver_triples
            /\ ev'[p].rand_sharings = ev[p].rand_sharings
            /\ ev'[p].beaver_counter >= ev[p].beaver_counter
            /\ ev'[p].rand_counter >= ev[p].rand_counter
            /\ ev'[p].beaver_counter <= Len(ev[p].beaver_triples)
            /\ ev'[p].rand_counter <= Len(ev[p].rand_sharings)]_vars


\* How many of the first i identifiers of xs are xs[i].
Occurrence(xs, i) == Cardinality({j \in 1 .. i : xs[j] = xs[i]})

\* The payload of the k-th pending message tagged id in box.
NthTagged(box, id, k) ==
    box[CHOOSE pos \in DOMAIN box :
            /\ box[pos][1] = id
            /\ Cardinality({m \in 1 .. pos : box[m][1] = id}) = k][2]

\* The logarithm (or, in F, the value) of party p's own i-th item of call c.
OwnItem(p, c, i) ==
    IF c.op = "batch_output_wire" THEN ev[p].wire_shares[c.xs[i]]
    ELSE c.polys[p][i][2]

\* The i-th value of call c at party p, built from its own item and, from
\* every other party, the message that answers the i-th recv_from_all: the
\* oldest message tagged xs[i] that no earlier recv of the call has taken.
BuiltFromIth(p, c, i) ==
    FAdd(OwnItem(p, c, i),
         SumSeq([k \in 1 .. (n - 1) |->
                    Base58Value(NthTagged(inbox[p][Others(p, n)[k]], c.xs[i],
                                          Occurrence(c.xs, i)))]))

\* C31: a party that starts a batched reconstruction issues all its
\* send_to_all calls, every slice, before it receives anything: after the
\* step every item is on its way to every other party, the party's own
\* inbox is untouched, and it waits on the identifiers in input order, one
\* recv_from_all for each position.  The step that receives sends nothing,
\* takes one message of every other party for each position, and builds the
\* i-th output from the messages of the i-th identifier.
C31_SendsThenReceivesInOrder ==
    [][\A p \in Parties :
          /\ (Starts(p) /\ Started(p).op \in ChunkOps
                /\ pc'[p] # "panicked") =>
                /\ pc'[p] = "waiting"
                /\ frame'[p].wait = Started(p).xs
                /\ Flatten(frame'[p].sent) = AlignedList(p, Started(p))
                /\ inbox'[p] = inbox[p]
                /\ \A q \in Parties \ {p} :
                      inbox'[q][p]
                        = inbox[q][p] \o AlignedList(p, Started(p))
          /\ (\E op \in ChunkOps : Resumes(p, op)) =>
                /\ pc'[p] = "idle"
                /\ \A q \in Parties \ {p} : inbox'[q] = inbox[q]
                /\ \A s \in Parties \ {p} :
                      Len(inbox'[p][s])
                        = Len(inbox[p][s]) - Len(frame[p].call.xs)
                /\ Len(returned'[p]) = Len(returned[p]) + 1
                /\ Len(returned'[p][Len(returned'[p])].values)
                     = Len(frame[p].call.xs)
                /\ \A i \in DOMAIN frame[p].call.xs :
                      LET v == returned'[p][Len(returned'[p])].values[i]
                      IN  (IF frame[p].call.op = "batch_output_wire"
                           THEN v ELSE v[2])
                            = BuiltFromIth(p, frame[p].call, i)]_vars

\* A party of three has returned from a sum in Gt of three items, sent in
\* two slices, the items of the positions being different at it.
C31_Witness ==
    /\ n = 3
    /\ \E k \in DOMAIN prog : \E p \in Parties :
          /\ prog[k].op = "batch_add_gt_elements_from_all_parties"
          /\ Len(prog[k].xs) = GT_CHUNK + 1
          /\ Len(returned[p]) >= k
          /\ prog[k].polys[p][1] # prog[k].polys[p][2]
          /\ returned[p][k].values[1] # returned[p][k].values[2]


CompositeOps ==
    {"mult", "batch_mult", "batch_inv", "batch_exp", "batch_ran_64",
     "share_poly_mult"}

\* Party p takes a step of a composite gate: it starts one or goes on with
\* the one it is in.
StepsComposite(p) ==
    \/ Starts(p) /\ Started(p).op \in CompositeOps
    \/ \E op \in CompositeOps : Resumes(p, op)

\* The identifiers of a sequence of (identifier, payload) pairs.
IdsOf(pairs) == [i \in DOMAIN pairs |-> pairs[i][1]]

\* What party p sends to party q in a step of p.
SentNow(p, q) ==
    SubSeq(inbox'[q][p], Len(inbox[q][p]) + 1, Len(inbox'[q][p]))

\* The gate counter below every label a step of p may open: the counter at
\* the start of the call, or the highest label the call's stage before has
\* opened.
Floor(p) ==
    IF Starts(p) THEN ev[p].gate_counter
    ELSE CHOOSE m \in frame[p].since .. ev[p].gate_counter :
            /\ \A g \in (m + 1) .. ev[p].gate_counter :
                  WireLabel(g) \notin Range(IdsOf(Flatten(frame[p].sent)))
            /\ \/ m = frame[p].since
               \/ WireLabel(m) \in Range(IdsOf(Flatten(frame[p].sent)))

NoRepeat(s) == \A i, j \in DOMAIN s : s[i] = s[j] => i = j

\* C32: in a run of composite gates on inputs, every identifier a party
\* sends is the label of a handle it has allocated inside the call, after
\* the identifiers of the call's stage before, so that no identifier serves
\* two reconstructions; the party then waits on the identifiers it has just
\* sent, in the same order; and two parties that wait at the same stage of
\* the same call wait on the same identifiers in the same order.
C32_IdentifiersAreFreshAndAligned ==
    [][/\ \A p \in Parties :
            StepsComposite(p) =>
               \A q \in Parties \ {p} :
                  /\ Range(IdsOf(SentNow(p, q)))
                       \subseteq {WireLabel(g) :
                                     g \in (Floor(p) + 1)
                                              .. ev'[p].gate_counter}
                  /\ NoRepeat(IdsOf(SentNow(p, q)))
                  /\ NoRepeat(IdsOf(inbox'[q][p]))
                  /\ pc'[p] = "waiting" =>
                        frame'[p].wait = IdsOf(SentNow(p, q))
                  /\ pc'[p] # "waiting" => SentNow(p, q) = <<>>
       /\ \A p \in Parties : \A q \in Parties :
            (pc'[p] = "waiting" /\ pc'[q] = "waiting" /\ ip'[p] = ip'[q]
                /\ frame'[p].stage = frame'[q].stage) =>
               frame'[p].wait = frame'[q].wait]_vars

\* A party of three is in the second reconstruction of a batch_inv that
\* follows a mult, waiting on identifiers it has sent to a party that is
\* still a stage behind and holds the messages of both stages.
C32_Witness ==
    /\ n = 3
    /\ Len(prog) = 3
    /\ prog[2].op = "mult" /\ prog[3].op = "batch_inv"
    /\ Len(prog[3].xs) = 2
    /\ \E p \in Parties : \E q \in Parties \ {p} :
          /\ ip[p] = 3 /\ pc[p] = "waiting" /\ frame[p].stage = 1
          /\ Len(frame[p].wait) = 2
          /\ ip[q] = 3 /\ pc[q] = "waiting" /\ frame[q].stage = 0
          /\ Len(inbox[q][p]) = 6


\* C33: when all parties run the same gates and every message sent reaches
\* the inbox of its identifier, a party that waits in a reconstruction gets
\* its answers and returns, whatever the speeds of the parties.
C33_ReconstructionsReturn ==
    \A p \in 1 .. MaxN :
        (p \in DOMAIN pc /\ pc[p] = "waiting")
            ~> (p \in DOMAIN pc /\ pc[p] = "idle")

\* A fast party of three has returned from the first reconstruction and is
\* waiting in the second, while a slow party still waits in the first and
\* already holds the fast party's messages of both.
C33_Witness ==
    /\ n = 3
    /\ Len(prog) = 3
    /\ prog[2].op = "output_wire"
    /\ prog[3].op = "batch_output_wire" /\ Len(prog[3].xs) = 2
    /\ \E p \in Parties : \E q \in Parties \ {p} :
          /\ ip[p] = 3 /\ pc[p] = "waiting"
          /\ Len(returned[p]) = 2
          /\ ip[q] = 2 /\ pc[q] = "waiting"
          /\ Len(inbox[q][p]) = 3
          /\ inbox[q][p][1][1] = prog[2].xs[1]

\* Every step of a party changes its position, and no step changes the
\* position of another party: the moves of MovesLive are the parties' steps.
C33_StepsAreMoves ==
    [][\A p \in Parties :
          (ev'[p] # ev[p] \/ frame'[p] # frame[p]
              \/ returned'[p] # returned[p]
              \/ \E q \in Parties \ {p} : inbox'[q][p] # inbox[q][p]
                    /\ Len(inbox'[q][p]) > Len(inbox[q][p]))
            <=> <<pc'[p], ip'[p]>> # <<pc[p], ip[p]>>]_vars


\* The operations that only reconstruct.
ReconstructionOps ==
    {"output_wire", "batch_output_wire", "batch_output_wire_in_exponent",
     "add_g1_elements_from_all_parties", "add_g2_elements_from_all_parties",
     "add_gt_elements_from_all_parties",
     "batch_add_g1_elements_from_all_parties",
     "batch_add_gt_elements_from_all_parties",
     "exp_and_reveal_g1", "exp_and_reveal_g2", "exp_and_reveal_gt"}

\* Party p takes a step of a reconstruction: it starts one or goes on with
\* the one it is in.
StepsReconstruction(p) ==
    \/ Starts(p) /\ Started(p).op \in ReconstructionOps
    \/ \E op \in ReconstructionOps : Resumes(p, op)

\* C34: a step of a party in output_wire, batch_output_wire,
\* batch_output_wire_in_exponent, a sum of group elements from all parties
\* (single or batched) or exp_and_reveal_g1/g2/gt leaves the party's wire
\* table, gate counter, beaver counter and rand counter as they were.
C34_ReconstructionsLeaveStateAlone ==
    [][\A p \in Parties :
          StepsReconstruction(p) =>
             /\ ev'[p].wire_shares = ev[p].wire_shares
             /\ ev'[p].gate_counter = ev[p].gate_counter
             /\ ev'[p].beaver_counter = ev[p].beaver_counter
             /\ ev'[p].rand_counter = ev[p].rand_counter]_vars

\* A party of three that holds a wire has returned from a sum in G1 and from
\* an exp_and_reveal_g2 on that wire, with the wire and the counters it had
\* after share_poly_eval.
C34_Witness ==
    /\ n = 3
    /\ Len(prog) = 3
    /\ prog[1].op = "share_poly_eval"
    /\ prog[2].op = "add_g1_elements_from_all_parties"
    /\ prog[3].op = "exp_and_reveal_g2"
    /\ Len(prog[3].xs) = 1 /\ Len(prog[3].bases) = 1
    /\ \E p \in Parties :
          /\ pc[p] = "idle" /\ Len(returned[p]) = 3
          /\ returned[p][2].values # <<GroupZero("G1")>>
          /\ returned[p][3].values # <<GroupZero("G2")>>
          /\ DOMAIN ev[p].wire_shares = {WireLabel(1)}
          /\ ev[p].gate_counter = 1
          /\ ev[p].beaver_counter = 0 /\ ev[p].rand_counter = 0


\* The value l the parties of a batch_ran_64 get for the j-th random sharing:
\* LOG_PERM_SIZE successive square roots of the opened
\* a^(2^LOG_PERM_SIZE), a being the sum of the parties' shares.
Ran64Root(j) ==
    RootLoop(FPow(MaskSum(j), 2 ^ LOG_PERM_SIZE), LOG_PERM_SIZE)

\* The random sharings the first k calls draw when all of them are
\* batch_ran_64.
DrawnBy(k) == FirstDrawn(k + 1) - 1

====
